---- MODULE Spec2Model ----
(***************************************************************************)
(* GitVersionManager: release publishers (core/publisher.py), the publish  *)
(* workflow (gui/workers.py PublishWorker.run, the same code as            *)
(* services/publish_service.py publish_to_platforms) and the worker        *)
(* bookkeeping of the sync dialog and main window (gui/dialogs.py,         *)
(* gui/main_window.py).                                                    *)
(*                                                                         *)
(* Three specifications share the module:                                  *)
(*   SpecPub  a publisher of one variant is called repeatedly with the     *)
(*            same repo and tag against one platform server;               *)
(*   SpecWf   one run of the publish workflow: tag, pushes, releases;      *)
(*   SpecGui  user clicks and worker completions in the sync dialog.       *)
(***************************************************************************)
EXTENDS Integers, Sequences, FiniteSets, TLC

VARIABLES
    \* ---- platform servers (environment) ----
    srv_releases,   \* [platform -> set of tags that have a release]
    srv_assets,     \* [platform -> number of assets attached to the release of Tag]
    \* ---- one publish() call frame (core/publisher.py) ----
    pub_pc,         \* "idle" | "lookup" | "create" | "upload" | "done" | "raised"
    pub_platform,   \* variant of the publisher whose publish() is running
    asset_path,     \* TRUE iff a non-empty asset path was passed
    release,        \* the dict returned by create_release (None before)
    result,         \* the result dict of publish()
    reqs,           \* requests issued by the current call, in order, each
                    \* [name, o: how the platform answered, got: a value came back]
    \* ---- history of the publish() calls of a run ----
    calls,          \* number of publish() calls started
    created,        \* [platform -> a call of this run created the release of Tag]
    createdBefore,  \* created[pub_platform] as it was when the current call started
    \* ---- the project and its configuration (inputs of the workflow) ----
    is_git_repo,    \* os.path.exists(<path>/.git)
    repo_remotes,   \* what "git remote -v" lists, in order: <<[name, platform]>>
    tag_exists,     \* the tag Tag exists in the local repository
    publish_to,     \* project["publish_to"]: sequence of platform names
    tokens,         \* platforms for which config.get_token() is non-empty
    repos,          \* platforms for which project["<platform>_repo"] is non-empty
    gitea_url,      \* TRUE iff config.get_gitea_url() is non-empty
    \* ---- PublishWorker.run ----
    wf_pc,          \* "off" | "start" | "tag" | "push" | "push_tags" | "platform"
                    \* | "publishing" | "finished" | "crashed"
    remotes,        \* local: git.get_remotes_with_details()
    tag_outcome,    \* how git.create_tag ended ("none" before it ran)
    wf_i,           \* index of the current loop (remotes, then publish_to)
    pushlog,        \* push attempts so far, in order: <<[remote, kind]>>
    push_ok,        \* what git.push returned in the current iteration
    results,        \* the result map: platform -> result dict
    wf_called,      \* the publisher.publish() invocations, in order:
                    \* <<[platform, variant of the publisher]>>
    \* ---- sync dialog and main window (gui/dialogs.py, gui/main_window.py) ----
    ui,             \* which SyncDialog is running: "dialogs" | "main_window"
    ops_enabled,    \* the operation buttons of the dialog are enabled
    refresh_enabled,\* refresh_btn of the dialog is enabled
    timer_pending,  \* QTimer.singleShot(100, self.refresh_status_async) not fired yet
    w,              \* [worker attribute -> "none" | "running" | "emitted"]
                    \* "emitted": run() has emitted finished, the thread still runs
    sig,            \* [worker attribute -> finished signals queued for the GUI thread]
    operation,      \* operation of the SyncOperationWorker last started
    last_request,   \* the last user request handled
    last_reply,     \* "none" | "started" | "busy" | "invalid"
    flight_at_request, \* a mutating worker was running when that request arrived
    aborted,        \* a QThread object was destroyed while its thread was running
    \* ---- history of the push phase, PublishService.full_publish_workflow ----
    branch_fail,    \* index of the first remote whose branch push failed (0: none)
    overall,        \* [returned, success]: result["success"] of full_publish_workflow
    \* ---- the working tree and the remote-tracking refs (core/git_helper.py) ----
    dirty,          \* "git status --porcelain" has something to list
    tracking,       \* remotes whose ref <remote>/<branch> exists locally
    \* ---- SyncOperationWorker.run, SyncStatusWorker.run, one GitHelper call ----
    g_op,           \* "none" | "push_all" | "commit_and_push_all" | "status" | "wrapper"
    g_pc,           \* "idle" | "changes" | "add" | "commit" | "push" | "fetch"
                    \* | "count" | "done"
    g_i,            \* index of the remote at hand
    g_log,          \* git commands run so far, in order: <<[cmd, remote, o]>>
    g_count,        \* success_count
    g_reports,      \* per-remote report of the pushes: remote name -> flag
    g_result,       \* what finished carries: [success, message]
    g_ret,          \* value returned by the wrapper called last
    g_status,       \* the dict returned by get_remote_status
    g_dirty0,       \* dirty as it was when the operation started
    g_runs,         \* operations started so far
    g_found,        \* the dicts remote_found has carried, in order
    g_out,          \* what the pull or push command printed and returned
    g_hint,         \* the conflict hint has been shown
    g_report,       \* what abort_operation has logged
    \* ---- confirmation of a force push ----
    fp_confirm,     \* the answers after which the force push worker was started
    \* ---- remotes and their URLs ----
    remote_url,     \* a remote URL: sequence of its pieces
    listing,        \* lines of "git remote -v": each a sequence of fields
    u_platform,     \* detect_platform_from_url(remote_url)
    u_repo,         \* parse_repo_from_url(remote_url)
    u_remotes,      \* get_remotes() of the listing
    u_done,         \* the functions applied so far
    \* ---- RefreshWorker.run (gui/workers.py, gui/main_window.py) ----
    rf_remotes,     \* local: git.get_remotes_with_details(), <<[name, platform]>>
    rf_local,       \* result["local_version"]: a triple, <<>> for None
    rf_pc,          \* "off" | "fetch" | "changes" | "version" | "platforms"
                    \* | "ahead" | "finished"
    rf_i,           \* index of the remote at hand
    rf_changes,     \* result["has_changes"]
    platform_status,\* local dict: platform -> [status, version, color]
    rf_log,         \* git commands that name a remote, in order: <<[cmd, i]>>
    rf_stores,      \* assignments to platform_status, in order:
                    \* <<[i, platform, color, over: color replaced]>>
    item_status,    \* result["item_status"]
    \* ---- the item status of a project, by each implementation ----
    it_in,          \* [repo, has_changes, ahead, behind] found in the project
    it_out,         \* [implementation -> status it reported, "none" before]
    \* ---- the label of one platform ----
    lb_local,       \* local version
    lb_remote,      \* remote version
    lb_out,         \* the entry stored for the platform
    \* ---- PublishService.full_publish_workflow ----
    f_pc,           \* "off" | "start" | "package" | "publish" | "returned"
    f_message,      \* a non-empty commit_message was passed
    f_commit,       \* result["commit_result"]: "None" | "ok" | "failed"
    f_package,      \* result["package_result"]["success"], "None" before
    f_steps,        \* the steps started so far, in order
    \* ---- ConfigManager (core/config_manager.py) ----
    project_dicts,  \* the project dicts alive: [id -> [path, type]]
    default_projects, \* the list object DEFAULT_CONFIG["projects"]: ids of dicts
    default_tokens, \* the dict object DEFAULT_CONFIG["tokens"]: platform -> token
    cfg,            \* [instance -> [made, own: config["projects"] is a list of
                    \* its own, projects: that list, as ids of dicts]]
    cfg_file,       \* [instance -> the JSON file at its config_path]
    cfg_actor,      \* the instance whose method ran last
    cfg_ret,        \* what that method returned
    \* ---- history of the sync dialog ----
    status_stale    \* a sync operation has completed and no status check has
                    \* been started since

srvVars == <<srv_releases, srv_assets>>
pubVars == <<pub_pc, pub_platform, asset_path, release, result, reqs,
             calls, created, createdBefore>>
guiVars == <<ui, ops_enabled, refresh_enabled, timer_pending, w, sig, operation,
             last_request, last_reply, flight_at_request, aborted>>
projectVars == <<is_git_repo, repo_remotes, tag_exists, publish_to, tokens, repos,
                 gitea_url>>
wfVars == <<wf_pc, remotes, tag_outcome, wf_i, pushlog, push_ok, results, wf_called>>

fullVars == <<branch_fail, overall>>
gitVars == <<dirty, tracking, g_op, g_pc, g_i, g_log, g_count, g_reports, g_result,
             g_ret, g_status, g_dirty0, g_runs>>

syncVars == <<g_found, g_out, g_hint, g_report>>
confirmVars == <<fp_confirm>>
urlVars == <<remote_url, listing, u_platform, u_repo, u_remotes, u_done>>
refreshVars == <<rf_remotes, rf_local, rf_pc, rf_i, rf_changes, platform_status,
                 rf_log, rf_stores, item_status>>
itemVars == <<it_in, it_out>>
labelVars == <<lb_local, lb_remote, lb_out>>
flowVars == <<f_pc, f_message, f_commit, f_package, f_steps>>
cfgVars == <<project_dicts, default_projects, default_tokens, cfg, cfg_file,
             cfg_actor, cfg_ret>>
staleVars == <<status_stale>>
appVars == <<refreshVars, itemVars, labelVars, flowVars, cfgVars, staleVars>>

\* what the publishers and the publish workflow leave alone
outsidePub == <<guiVars, fullVars, gitVars, syncVars, confirmVars, urlVars,
                appVars>>
\* what the dialog leaves alone
outsideGui == <<srvVars, pubVars, projectVars, wfVars, fullVars, gitVars, syncVars,
                confirmVars, urlVars, appVars>>
\* the same without the history of the dialog
outsideDialog == <<srvVars, pubVars, projectVars, wfVars, fullVars, gitVars, syncVars,
                   confirmVars, urlVars, refreshVars,
                   itemVars, labelVars, flowVars, cfgVars>>
\* what the git helper leaves alone
outsideSync == <<srvVars, pubVars, wfVars, guiVars, fullVars, confirmVars, urlVars,
                 appVars>>
\* what the push and status operations leave alone
outsideGit == <<outsideSync, syncVars>>

vars == <<srvVars, pubVars, projectVars, wfVars, guiVars, fullVars, gitVars,
          syncVars, confirmVars, urlVars, appVars>>

-----------------------------------------------------------------------------
(* Bounds and vocabulary *)

MaxCalls == 3
MaxRemotes == 2
MaxPublishTo == 2
MaxPending == 1
MaxCount == 2
MaxSegments == 3
MaxLines == 3

Platforms == {"github", "gitee", "gitea"}

\* tag = f"v{version}" of the project under publication, and one older tag
\* that may already have a release on a platform.
Tag == "v1.0.0"
OtherTag == "v0.9.0"
Tags == {Tag, OtherTag}

\* How the platform answers one HTTP request:
\*   "ok"      the platform processed it and answered normally
\*   "neterr"  requests.exceptions.RequestException (timeout, DNS, refused)
\*   "status"  an error status code (403, 500, ...)
\*   "exc"     any other exception (e.g. response.json() on a broken body)
ReqOutcomes == {"ok", "neterr", "status", "exc"}
\* upload_asset also opens the asset file: "ioerr" is the IOError of open().
UploadOutcomes == ReqOutcomes \cup {"ioerr"}

-----------------------------------------------------------------------------
(* Values *)

None == [tag_name |-> "None", html_url |-> <<>>, handle |-> FALSE]

NoUrl == <<>>
HtmlUrl(p, t) == <<"html_url", p, t>>

\* The JSON of a release as a platform returns it.  handle is the field the
\* upload needs (upload_url on GitHub, id on Gitee and Gitea); the platforms
\* always send it.
ReleaseJson(p, t) == [tag_name |-> t, html_url |-> HtmlUrl(p, t), handle |-> TRUE]

\* Messages are sequences of words, so that "contains" is a computation.
MsgAlreadyExists(t) == <<"Release", t, "already", "exists">>
MsgCreateFailed == <<"Failed", "to", "create", "release">>
MsgPublished == <<"Release", "published", "successfully">>
MsgUploadFailed == <<"Release", "created", "but", "asset", "upload", "failed">>
MsgNoAsset == <<"Release", "created", "(no", "asset)">>
MsgUnexpected == <<"Unexpected", "error:">>
NoMessage == <<>>

\* words occurs in msg as a contiguous run
Contains(msg, words) ==
    \E i \in 0..(Len(msg) - Len(words)) :
        \A j \in 1..Len(words) : msg[i + j] = words[j]


-----------------------------------------------------------------------------
(* core/publisher.py: the three requests of a publisher *)

\* GiteePublisher.get_releases: the list of releases, [] on any failure.
get_releases(p, o) == IF o = "ok" THEN srv_releases[p] ELSE {}

\* get_release_by_tag: GitHub and Gitea ask the tag endpoint (200 iff the
\* release exists); Gitee lists the releases and filters by tag_name.
\* A network error or an error status yields None.
get_release_by_tag(p, t, o) ==
    IF p = "gitee"
    THEN IF \E r \in get_releases(p, o) : r = t
         THEN ReleaseJson(p, t)
         ELSE None
    ELSE IF o = "ok" /\ t \in srv_releases[p]
         THEN ReleaseJson(p, t)
         ELSE None

\* The platform accepts a creation iff the request arrives and the tag has no
\* release yet (a second release for a tag is rejected with an error status).
Accepted(p, t, o) == o = "ok" /\ t \notin srv_releases[p]

\* create_release: the release JSON on 201 (200/201 on Gitee, Gitea), else None.
create_release(p, t, o) ==
    IF Accepted(p, t, o) THEN ReleaseJson(p, t) ELSE None

\* upload_asset: the asset JSON (TRUE) on success, None (FALSE) on a network
\* error, an error status or an IOError of open().
upload_asset(o) == o = "ok"

-----------------------------------------------------------------------------
(* core/publisher.py: publish() of the three variants *)

\* result = {"success": False, "platform": ..., "repo": repo}
InitialResult(p) ==
    [success |-> FALSE, platform |-> p, message |-> NoMessage, url |-> NoUrl]

\* Only GitHubPublisher.publish sets result["url"]; GiteePublisher and
\* GiteaPublisher never do.
WithUrl(p, res, rel) ==
    IF p = "github" THEN [res EXCEPT !.url = rel.html_url] ELSE res

\* "if existing:"
Existing(rel) == rel # None

\* a publish that goes on whatever create_release returned
NotRelease_never(rel) == FALSE
\* "if not release:"
NotRelease(rel) == rel = None

Req(name, o, got) == [name |-> name, o |-> o, got |-> got]

\* "if upload_url and asset_path:" (release_id on Gitee and Gitea)
WantsUpload(rel, asset) == rel.handle /\ asset

\* except Exception as e: result["message"] = f"Unexpected error: {e}"
OnException(res) == [res EXCEPT !.message = MsgUnexpected]

\* entry of publish(): the frame is set up, nothing is requested yet
publish_enter(p, asset) ==
    /\ pub_pc = "idle"
    /\ pub_pc' = "lookup"
    /\ pub_platform' = p
    /\ asset_path' = asset
    /\ release' = None
    /\ result' = InitialResult(p)
    /\ reqs' = <<>>
    /\ calls' = calls + 1
    /\ createdBefore' = created[p]
    /\ created' = created

\* existing = self.get_release_by_tag(repo, tag)
publish_lookup ==
    /\ pub_pc = "lookup"
    /\ \E o \in ReqOutcomes :
        LET p == pub_platform
            existing == get_release_by_tag(p, Tag, o)
        IN  /\ reqs' = Append(reqs, Req("lookup", o, o # "exc" /\ existing # None))
            /\ IF o = "exc"
               THEN /\ result' = OnException(result)
                    /\ pub_pc' = "done"
               ELSE IF Existing(existing)
               THEN /\ result' = WithUrl(p,
                            [result EXCEPT !.message = MsgAlreadyExists(Tag)],
                            existing)
                    /\ pub_pc' = "done"
               ELSE /\ result' = result
                    /\ pub_pc' = "create"
    /\ UNCHANGED <<pub_platform, asset_path, release, srvVars>>
    /\ UNCHANGED <<calls, created, createdBefore>>

\* release = self.create_release(repo, tag, name, body)
publish_create ==
    /\ pub_pc = "create"
    /\ \E o \in ReqOutcomes :
        LET p == pub_platform
            rel == create_release(p, Tag, o)
        IN  /\ reqs' = Append(reqs, Req("create", o, o # "exc" /\ rel # None))
            /\ srv_releases' = IF Accepted(p, Tag, o)
                               THEN [srv_releases EXCEPT ![p] = @ \cup {Tag}]
                               ELSE srv_releases
            /\ created' = IF Accepted(p, Tag, o)
                          THEN [created EXCEPT ![p] = TRUE]
                          ELSE created
            /\ IF o = "exc"
               THEN /\ result' = OnException(result)
                    /\ release' = release
                    /\ pub_pc' = "done"
               ELSE IF NotRelease(rel)
               THEN /\ result' = [result EXCEPT !.message = MsgCreateFailed]
                    /\ release' = rel
                    /\ pub_pc' = "done"
               ELSE IF WantsUpload(rel, asset_path)
               THEN /\ result' = result
                    /\ release' = rel
                    /\ pub_pc' = "upload"
               ELSE /\ result' = WithUrl(p,
                            [result EXCEPT !.success = TRUE,
                                           !.message = MsgNoAsset],
                            rel)
                    /\ release' = rel
                    /\ pub_pc' = "done"
    /\ UNCHANGED <<pub_platform, asset_path, srv_assets, calls, createdBefore>>

\* asset = self.upload_asset(upload_url, asset_path)
\* open() comes first: on an IOError no request is issued.
publish_upload ==
    /\ pub_pc = "upload"
    /\ \E o \in UploadOutcomes :
        LET p == pub_platform
        IN  /\ reqs' = IF o = "ioerr"
                        THEN reqs
                        ELSE Append(reqs, Req("upload", o, o = "ok"))
            /\ srv_assets' = IF o = "ok"
                             THEN [srv_assets EXCEPT ![p] = @ + 1]
                             ELSE srv_assets
            /\ IF o = "exc"
               THEN result' = OnException(result)
               ELSE IF upload_asset(o)
               THEN result' = WithUrl(p,
                            [result EXCEPT !.success = TRUE,
                                           !.message = MsgPublished],
                            release)
               ELSE result' = WithUrl(p,
                            [result EXCEPT !.message = MsgUploadFailed],
                            release)
            /\ pub_pc' = "done"
    /\ UNCHANGED <<pub_platform, asset_path, release, srv_releases>>
    /\ UNCHANGED <<calls, created, createdBefore>>

\* return result
publish_return ==
    /\ pub_pc = "done"
    /\ pub_pc' = "idle"
    /\ UNCHANGED <<pub_platform, asset_path, release, result, reqs>>
    /\ UNCHANGED <<calls, created, createdBefore>>

-----------------------------------------------------------------------------
(* SpecPub: publish() called again and again with the same repo and tag *)

InitPublisher ==
    /\ pub_pc = "idle"
    /\ asset_path = FALSE
    /\ release = None
    /\ result = InitialResult(pub_platform)
    /\ reqs = <<>>
    /\ calls = 0
    /\ created = [p \in Platforms |-> FALSE]
    /\ createdBefore = FALSE

InitServers ==
    /\ srv_releases \in [Platforms -> SUBSET Tags]
    /\ srv_assets = [p \in Platforms |-> 0]

\* no project, no workflow
WorkflowOff ==
    /\ is_git_repo = FALSE
    /\ repo_remotes = <<>>
    /\ tag_exists = FALSE
    /\ publish_to = <<>>
    /\ tokens = {}
    /\ repos = {}
    /\ gitea_url = FALSE
    /\ wf_pc = "off"
    /\ remotes = <<>>
    /\ tag_outcome = "none"
    /\ wf_i = 0
    /\ pushlog = <<>>
    /\ push_ok = FALSE
    /\ results = <<>>
    /\ wf_called = <<>>
    /\ branch_fail = 0
    /\ overall = [returned |-> FALSE, success |-> FALSE]

\* the worker attributes of the dialog and the main window: sync_worker,
\* operation_worker, package_worker, publish_worker
Workers == {"sync", "operation", "package", "publish"}

\* no force push asked for
ConfirmOff ==
    fp_confirm = [started |-> FALSE, yes |-> FALSE, asked |-> FALSE, ok |-> FALSE,
                  text |-> <<>>]

\* no dialog
GuiOff ==
    /\ ConfirmOff
    /\ ui = "none"
    /\ ops_enabled = FALSE
    /\ refresh_enabled = FALSE
    /\ timer_pending = FALSE
    /\ w = [k \in Workers |-> "none"]
    /\ sig = [k \in Workers |-> 0]
    /\ operation = "none"
    /\ last_request = "none"
    /\ last_reply = "none"
    /\ flight_at_request = FALSE
    /\ aborted = FALSE

\* status = {"remote": ..., "ahead": 0, "behind": 0, "can_push": True,
\*           "can_pull": True, "error": None}
InitialStatus ==
    [ahead |-> 0, behind |-> 0, can_push |-> TRUE, can_pull |-> TRUE,
     error |-> "None"]

NoResult == [success |-> FALSE, message |-> <<>>]

NoOutput == [returncode |-> 0, stdout |-> <<>>, stderr |-> <<>>]

\* nothing pulled, force-pushed or aborted
SyncOff ==
    /\ g_found = <<>>
    /\ g_out = NoOutput
    /\ g_hint = FALSE
    /\ g_report = "none"

\* no URL and no listing looked at
UrlOff ==
    /\ remote_url = <<>>
    /\ listing = <<>>
    /\ u_platform = "none"
    /\ u_repo = <<>>
    /\ u_remotes = <<>>
    /\ u_done = {}

\* no refresh
RefreshOff ==
    /\ rf_remotes = <<>>
    /\ rf_local = <<>>
    /\ rf_pc = "off"
    /\ rf_i = 0
    /\ rf_changes = FALSE
    /\ platform_status = <<>>
    /\ rf_log = <<>>
    /\ rf_stores = <<>>
    /\ item_status = "unknown"

ItemImplementations == {"RefreshWorker", "ProjectStatusWorker", "get_quick_status"}

\* no project looked at
ItemOff ==
    /\ it_in = [repo |-> "missing", has_changes |-> FALSE, ahead |-> 0, behind |-> 0]
    /\ it_out = [m \in ItemImplementations |-> "none"]

NoEntry == [status |-> "none", version |-> <<>>, color |-> "none"]

\* no platform labelled
LabelOff ==
    /\ lb_local = <<>>
    /\ lb_remote = <<>>
    /\ lb_out = NoEntry

\* full_publish_workflow not called
FlowOff ==
    /\ f_pc = "off"
    /\ f_message = FALSE
    /\ f_commit = "None"
    /\ f_package = "None"
    /\ f_steps = <<>>

\* the ConfigManager objects of one process
Instances == {"a", "b"}

MaxDicts == 2

\* no dict with that id yet
NoDict == [path |-> "none", type |-> "none"]

\* "tokens": {"github": "", "gitee": "", "gitea": {...}} of DEFAULT_CONFIG, as
\* the class statement builds it; the entries of the other platforms are
\* handled as the one of github is
DefaultTokens == [p \in {"github"} |-> ""]

\* no file at a config_path
NoFile == [exists |-> FALSE, has_projects |-> FALSE, projects |-> <<>>,
           has_tokens |-> FALSE, tokens |-> <<>>]

\* the class ConfigManager as the import leaves it, no instance made
CfgOff ==
    /\ project_dicts = [id \in 1..MaxDicts |-> NoDict]
    /\ default_projects = <<>>
    /\ default_tokens = DefaultTokens
    /\ cfg = [i \in Instances |-> [made |-> FALSE, own |-> FALSE, projects |-> <<>>]]
    /\ cfg_file = [i \in Instances |-> NoFile]
    /\ cfg_actor = "none"
    /\ cfg_ret = FALSE

AppOff ==
    /\ status_stale = FALSE
    /\ RefreshOff
    /\ ItemOff
    /\ LabelOff
    /\ FlowOff
    /\ CfgOff

\* no sync operation
GitOff ==
    /\ SyncOff
    /\ dirty = FALSE
    /\ tracking = {}
    /\ g_op = "none"
    /\ g_pc = "idle"
    /\ g_i = 0
    /\ g_log = <<>>
    /\ g_count = 0
    /\ g_reports = <<>>
    /\ g_result = NoResult
    /\ g_ret = FALSE
    /\ g_status = InitialStatus
    /\ g_dirty0 = FALSE
    /\ g_runs = 0

InitPub ==
    /\ GitOff
    /\ UrlOff
    /\ AppOff
    /\ pub_platform \in Platforms
    /\ InitPublisher
    /\ InitServers
    /\ \A p \in Platforms \ {pub_platform} : srv_releases[p] = {}
    /\ WorkflowOff
    /\ GuiOff

\* publisher.publish(repo, tag, name, body, asset_path) by a direct caller
PublishCall ==
    /\ calls < MaxCalls
    /\ \E asset \in BOOLEAN : publish_enter(pub_platform, asset)
    /\ UNCHANGED <<srvVars, projectVars, wfVars, outsidePub>>

PublishLookup == publish_lookup /\ UNCHANGED <<projectVars, wfVars, outsidePub>>
PublishCreate == publish_create /\ UNCHANGED <<projectVars, wfVars, outsidePub>>
PublishUpload == publish_upload /\ UNCHANGED <<projectVars, wfVars, outsidePub>>
PublishReturn == publish_return /\ UNCHANGED <<srvVars, projectVars, wfVars, outsidePub>>

NextPub ==
    \/ PublishCall
    \/ PublishLookup
    \/ PublishCreate
    \/ PublishUpload
    \/ PublishReturn

SpecPub == InitPub /\ [][NextPub]_vars

-----------------------------------------------------------------------------
(* core/publisher.py get_publisher, interfaces/publisher_interface.py *)

\* "from interfaces.publisher_interface import IPublisher, PublisherRegistry"
\* succeeds: the package is part of the application.
HAS_INTERFACE == TRUE

\* PublisherRegistry._publishers once core.publisher is imported: GitHubPublisher
\* and GiteePublisher are registered, GiteaPublisher is not.
Registered == {"github", "gitee"}

is_registered(platform) == platform \in Registered

\* The constructors the registry can call: GitHubPublisher.__init__(self, token)
\* and GiteePublisher.__init__(self, token) take no keyword argument.
AcceptsKeywords(platform) == FALSE

\* PublisherRegistry.get: publisher_class(token, **kwargs), None if unknown.
\* The value is the variant of the publisher, "None", or "TypeError" when the
\* constructor call raises.
PublisherRegistry_get(platform, kwargs) ==
    IF platform \in Registered
    THEN IF kwargs = {} \/ AcceptsKeywords(platform)
         THEN platform
         ELSE "TypeError"
    ELSE "None"

\* get_publisher(platform, token, **kwargs); url: kwargs["url"] is non-empty
get_publisher(platform, kwargs, url) ==
    IF HAS_INTERFACE /\ is_registered(platform)
    THEN PublisherRegistry_get(platform, kwargs)
    ELSE IF platform = "github" THEN "github"
    ELSE IF platform = "gitee" THEN "gitee"
    ELSE IF platform = "gitea" /\ url THEN "gitea"
    ELSE "None"

-----------------------------------------------------------------------------
(* gui/workers.py PublishWorker.run (= PublishService.publish_to_platforms) *)

\* "未配置Token" and "未配置仓库"
MsgNoToken == <<"Token", "not", "configured">>
MsgNoRepo == <<"repo", "not", "configured">>

SkipResult(msg) == [success |-> FALSE, message |-> msg]

\* results[platform] = r
Put(d, k, v) == [x \in (DOMAIN d) \cup {k} |-> IF x = k THEN v ELSE d[x]]

\* How a local git command ends: exit code 0, a non-zero exit code
\* (CalledProcessError under check=True), or the 10 s timeout, which _run_git
\* turns into a returned CompletedProcess (no exception).
GitOutcomes == {"ok", "fail", "timeout"}

\* GitHelper._run_git(args, check): subprocess.run(..., check=check, timeout=10).
\* A non-zero exit code raises CalledProcessError iff check; TimeoutExpired is
\* caught and a CompletedProcess with returncode 1 is returned.
run_git(o, check) ==
    IF o = "timeout"
    THEN [raised |-> FALSE, returncode |-> 1,
          stderr |-> <<"Command", "timed", "out", "after", "10s">>]
    ELSE IF o = "fail"
    THEN [raised |-> check, returncode |-> 1, stderr |-> <<"fatal">>]
    ELSE [raised |-> FALSE, returncode |-> 0, stderr |-> <<>>]

\* The wrappers of GitHelper that run a command with check=True and catch
\* CalledProcessError (fetch, commit, push, pull, create_tag, push_tags, the
\* remote commands, abort_rebase, abort_merge): False iff the command exited
\* with a non-zero code.  After a timeout _run_git returns a CompletedProcess,
\* nothing is raised and the wrapper returns True.
Wrapper(o) == ~run_git(o, TRUE).raised

\* "for remote in remotes": where the loop goes from index i
RemoteLoop_skip_last(i) == IF i >= Len(remotes) THEN "platform" ELSE "push"

RemoteLoop(i) == IF i > Len(remotes) THEN "platform" ELSE "push"

\* "if git.is_git_repo():" guards the tag and the pushes
AfterRepoCheck_inverted(isrepo) == IF ~isrepo THEN "tag" ELSE "platform"

AfterRepoCheck(isrepo) == IF isrepo THEN "tag" ELSE "platform"

\* a workflow that gives up when create_tag returned False
AfterCreateTag_fatal(ok) == IF ok THEN "push" ELSE "finished"
\* git.create_tag(tag, f"Release {tag}") is a statement: its value is dropped
\* and the loop over the remotes follows
AfterCreateTag(ok) == "push"

\* a push phase that pushes the tags only after a successful branch push
TagsPushAttempted_gated(ok) == ok
\* git.push_tags(remote_name) is called whatever git.push returned
TagsPushAttempted(ok) == TRUE

\* run() up to the tag: results = {}, git.is_git_repo(), get_remotes_with_details()
WfRun ==
    /\ wf_pc = "start"
    /\ wf_pc' = AfterRepoCheck(is_git_repo)
    /\ remotes' = IF wf_pc' = "tag" THEN repo_remotes ELSE remotes
    /\ wf_i' = 1
    /\ results' = <<>>
    /\ UNCHANGED <<tag_outcome, pushlog, push_ok, wf_called>>
    /\ UNCHANGED <<projectVars, pubVars, srvVars, outsidePub>>

\* git.create_tag(tag, f"Release {tag}"); the returned flag is not looked at.
\* "git tag -a" exits with 0 only if the tag did not exist; after a timeout the
\* tag may or may not have been written.
WfCreateTag ==
    /\ wf_pc = "tag"
    /\ \E o \in GitOutcomes :
        /\ tag_outcome' = o
        /\ \/ /\ o = "ok"
              /\ ~tag_exists
              /\ tag_exists' = TRUE
           \/ /\ o = "fail"
              /\ tag_exists' = tag_exists
           \/ /\ o = "timeout"
              /\ tag_exists' \in {tag_exists, TRUE}
    /\ wf_i' = 1
    /\ wf_pc' = IF AfterCreateTag(Wrapper(tag_outcome')) = "push"
              THEN RemoteLoop(1)
              ELSE AfterCreateTag(Wrapper(tag_outcome'))
    /\ UNCHANGED <<remotes, pushlog, push_ok, results, wf_called>>
    /\ UNCHANGED <<is_git_repo, repo_remotes, publish_to, tokens, repos, gitea_url>>
    /\ UNCHANGED <<pubVars, srvVars, outsidePub>>

\* git.push(remote_name, branch)
WfPush ==
    /\ wf_pc = "push"
    /\ pushlog' = Append(pushlog, [remote |-> remotes[wf_i].name,
                                   platform |-> remotes[wf_i].platform,
                                   kind |-> "branch"])
    /\ \E o \in GitOutcomes : push_ok' = Wrapper(o)
    /\ branch_fail' = IF branch_fail = 0 /\ ~push_ok' THEN wf_i ELSE branch_fail
    /\ wf_pc' = "push_tags"
    /\ UNCHANGED <<remotes, tag_outcome, wf_i, results, wf_called>>
    /\ UNCHANGED <<projectVars, pubVars, srvVars, guiVars, gitVars, overall>>
    /\ UNCHANGED <<syncVars, confirmVars, urlVars, appVars>>

\* git.push_tags(remote_name), then the next remote
WfPushTags ==
    /\ wf_pc = "push_tags"
    /\ pushlog' = IF TagsPushAttempted(push_ok)
                  THEN Append(pushlog, [remote |-> remotes[wf_i].name,
                                        platform |-> remotes[wf_i].platform,
                                        kind |-> "tags"])
                  ELSE pushlog
    \* the flag of push_tags only selects a progress line; the flags of this
    \* iteration are not kept
    /\ push_ok' = FALSE
    /\ wf_i' = IF wf_i + 1 > Len(remotes) THEN 1 ELSE wf_i + 1
    /\ wf_pc' = RemoteLoop(wf_i + 1)
    /\ UNCHANGED <<remotes, tag_outcome, results, wf_called>>
    /\ UNCHANGED <<projectVars, pubVars, srvVars, outsidePub>>

\* one iteration of "for platform in self.publish_to" up to publisher.publish
WfPlatform ==
    /\ wf_pc = "platform"
    /\ wf_i <= Len(publish_to)
    /\ LET platform == publish_to[wf_i]
           publisher == get_publisher(platform, {"url"},
                                      platform = "gitea" /\ gitea_url)
       IN  IF platform \notin tokens
           THEN /\ results' = Put(results, platform, SkipResult(MsgNoToken))
                /\ wf_i' = wf_i + 1
                /\ UNCHANGED <<wf_pc, wf_called, pubVars>>
           ELSE IF platform \notin repos
           THEN /\ results' = Put(results, platform, SkipResult(MsgNoRepo))
                /\ wf_i' = wf_i + 1
                /\ UNCHANGED <<wf_pc, wf_called, pubVars>>
           ELSE IF publisher = "TypeError"
           THEN /\ wf_pc' = "crashed"
                /\ UNCHANGED <<results, wf_i, wf_called, pubVars>>
           ELSE IF publisher = "None"
           THEN /\ wf_i' = wf_i + 1
                /\ UNCHANGED <<results, wf_pc, wf_called, pubVars>>
           ELSE /\ publish_enter(publisher, TRUE)
                /\ wf_called' = Append(wf_called, [platform |-> platform,
                                                   variant |-> publisher])
                /\ wf_pc' = "publishing"
                /\ UNCHANGED <<results, wf_i>>
    /\ UNCHANGED <<remotes, tag_outcome, pushlog, push_ok>>
    /\ UNCHANGED <<projectVars, srvVars, outsidePub>>

\* result = publisher.publish(...) has returned: results[platform] = result
WfStore ==
    /\ wf_pc = "publishing"
    /\ publish_return
    /\ results' = Put(results, publish_to[wf_i], result)
    /\ wf_i' = wf_i + 1
    /\ wf_pc' = "platform"
    /\ UNCHANGED <<remotes, tag_outcome, pushlog, push_ok, wf_called>>
    /\ UNCHANGED <<projectVars, srvVars, outsidePub>>

\* self.finished.emit(results)
WfFinish ==
    /\ wf_pc = "platform"
    /\ wf_i > Len(publish_to)
    /\ wf_pc' = "finished"
    /\ UNCHANGED <<remotes, tag_outcome, wf_i, pushlog, push_ok, results, wf_called>>
    /\ UNCHANGED <<projectVars, pubVars, srvVars, outsidePub>>

\* success_count = sum(1 for r in results.values() if r.get("success"))
success_count(rs) == Cardinality({ p \in DOMAIN rs : rs[p].success })

\* total_count = len(result["publish_results"])
total_count(rs) == Cardinality(DOMAIN rs)

\* a workflow whose flag is success_count == total_count alone
overall_success_no_floor(rs) == success_count(rs) = total_count(rs)
\* result["success"] = success_count == total_count and total_count > 0
overall_success(rs) == success_count(rs) = total_count(rs) /\ total_count(rs) > 0

\* PublishService.full_publish_workflow after publish_to_platforms returned
WfOverall ==
    /\ wf_pc = "finished"
    /\ ~overall.returned
    /\ overall' = [returned |-> TRUE, success |-> overall_success(results)]
    /\ UNCHANGED <<srvVars, pubVars, projectVars, wfVars, guiVars, gitVars, branch_fail>>
    /\ UNCHANGED <<syncVars, confirmVars, urlVars, appVars>>

\* the remotes a repository may have
RemotePool ==
    { [name |-> "origin", platform |-> "github"],
      [name |-> "fork", platform |-> "gitee"],
      [name |-> "mirror", platform |-> "gitea"] }

\* sequences over S of length at most n without repetition
SeqsNoRep(S, n) ==
    UNION { { f \in [1..k -> S] : \A i, j \in 1..k : i # j => f[i] # f[j] }
            : k \in 0..n }

Elems(seq) == { seq[i] : i \in 1..Len(seq) }

\* A project, its repository and the configuration.  What the workflow never
\* reads (settings of platforms that are not requested) is left empty.
InitProject ==
    /\ is_git_repo \in BOOLEAN
    /\ repo_remotes \in SeqsNoRep(RemotePool, MaxRemotes)
    /\ tag_exists \in BOOLEAN
    /\ ~is_git_repo => (repo_remotes = <<>> /\ tag_exists = FALSE)
    /\ publish_to \in SeqsNoRep(Platforms, MaxPublishTo)
    /\ tokens \in SUBSET Elems(publish_to)
    /\ repos \in SUBSET Elems(publish_to)
    /\ gitea_url \in BOOLEAN
    /\ "gitea" \notin Elems(publish_to) => gitea_url = FALSE

InitWf ==
    /\ UrlOff
    /\ AppOff
    /\ GitOff
    /\ InitProject
    /\ srv_releases \in [Platforms -> SUBSET {Tag}]
    /\ \A p \in Platforms :
          (p \notin Elems(publish_to) \/ p \in Registered) => srv_releases[p] = {}
    /\ srv_assets = [p \in Platforms |-> 0]
    /\ pub_platform = "github"
    /\ InitPublisher
    /\ wf_pc = "start"
    /\ remotes = <<>>
    /\ tag_outcome = "none"
    /\ wf_i = 0
    /\ pushlog = <<>>
    /\ push_ok = FALSE
    /\ results = <<>>
    /\ wf_called = <<>>
    /\ branch_fail = 0
    /\ overall = [returned |-> FALSE, success |-> FALSE]
    /\ GuiOff

NextWf ==
    \/ WfRun
    \/ WfCreateTag
    \/ WfPush
    \/ WfPushTags
    \/ WfPlatform
    \/ PublishLookup
    \/ PublishCreate
    \/ PublishUpload
    \/ WfStore
    \/ WfFinish
    \/ WfOverall

SpecWf == InitWf /\ [][NextWf]_vars

-----------------------------------------------------------------------------
(* gui/workers.py SyncOperationWorker.run (push_all, commit_and_push_all),
   core/git_helper.py get_remote_status and the wrappers of GitHelper *)

MsgNothingToCommit == <<"nothing", "to", "commit">>
MsgStageFailed == <<"stage", "failed">>
MsgCommitFailed == <<"commit", "failed">>
MsgPushed == <<"done">>

\* the wrappers of GitHelper around a mutating command
WrapperCmds ==
    {"fetch", "commit", "push", "pull", "create_tag", "push_tags", "add_remote",
     "set_remote_url", "remove_remote", "rename_remote", "abort_rebase",
     "abort_merge"}

Cmd(cmd, remote, o) == [cmd |-> cmd, remote |-> remote, o |-> o]

\* a check that reports changes whatever git status printed
has_local_changes_always(o, changes) == TRUE
\* GitHelper.has_local_changes: bool(result.stdout.strip()) of
\* "git status --porcelain" run with check=False; a command that failed or
\* timed out printed nothing.
has_local_changes(o, changes) == o = "ok" /\ changes

\* A behaviour follows one operation; the working tree and the refs it starts
\* from are any that earlier operations may have left.
\* the worker is started for one of its operations
GitStart ==
    /\ g_pc = "idle"
    /\ g_runs = 0
    /\ g_runs' = g_runs + 1
    /\ g_op' \in {"push_all", "commit_and_push_all"}
    /\ g_pc' = IF g_op' = "push_all" THEN "push" ELSE "changes"
    /\ g_i' = 1
    /\ g_log' = <<>>
    /\ g_count' = 0
    /\ g_reports' = <<>>
    /\ g_result' = NoResult
    /\ g_dirty0' = dirty
    /\ UNCHANGED <<dirty, tracking, g_ret, g_status>>
    /\ UNCHANGED <<projectVars, outsideGit>>

\* "if not git.has_local_changes():" -> finished.emit(False, "没有修改")
GitCheckChanges ==
    /\ g_pc = "changes"
    /\ \E o \in GitOutcomes :
        IF has_local_changes(o, dirty)
        THEN /\ g_pc' = "add"
             /\ g_result' = g_result
        ELSE /\ g_pc' = "done"
             /\ g_result' = [success |-> FALSE, message |-> MsgNothingToCommit]
    /\ UNCHANGED <<dirty, tracking, g_op, g_i, g_log, g_count, g_reports, g_ret,
                   g_status, g_dirty0, g_runs>>
    /\ UNCHANGED <<projectVars, outsideGit>>

\* try: git._run_git(["add", "-A"]) except Exception: finished.emit(False, ...)
GitStage ==
    /\ g_pc = "add"
    /\ \E o \in GitOutcomes :
        /\ g_log' = Append(g_log, Cmd("add", "", o))
        /\ IF run_git(o, TRUE).raised
           THEN /\ g_pc' = "done"
                /\ g_result' = [success |-> FALSE, message |-> MsgStageFailed]
           ELSE /\ g_pc' = "commit"
                /\ g_result' = g_result
    /\ UNCHANGED <<dirty, tracking, g_op, g_i, g_count, g_reports, g_ret,
                   g_status, g_dirty0, g_runs>>
    /\ UNCHANGED <<projectVars, outsideGit>>

\* "if not git.commit(changelog):"; GitHelper.commit runs "add -A" and then
\* "commit -m", both with check=True, and returns False on CalledProcessError
GitCommit ==
    /\ g_pc = "commit"
    /\ \E o1 \in GitOutcomes, o2 \in GitOutcomes :
        LET staged == ~run_git(o1, TRUE).raised
            ok == staged /\ Wrapper(o2)
        IN  /\ g_log' = IF staged
                        THEN g_log \o <<Cmd("add", "", o1), Cmd("commit", "", o2)>>
                        ELSE Append(g_log, Cmd("add", "", o1))
            /\ dirty' = IF staged /\ o2 = "ok" THEN FALSE ELSE dirty
            /\ IF ok
               THEN /\ g_pc' = "push"
                    /\ g_result' = g_result
               ELSE /\ g_pc' = "done"
                    /\ g_result' = [success |-> FALSE, message |-> MsgCommitFailed]
    /\ g_i' = 1
    /\ g_count' = 0
    /\ UNCHANGED <<tracking, g_op, g_reports, g_ret, g_status, g_dirty0, g_runs>>
    /\ UNCHANGED <<projectVars, outsideGit>>

\* one iteration of "for remote in remotes": git.push(name, branch)
GitPush ==
    /\ g_pc = "push"
    /\ g_i <= Len(repo_remotes)
    /\ \E o \in GitOutcomes :
        LET name == repo_remotes[g_i].name
        IN  /\ g_log' = Append(g_log, Cmd("push", name, o))
            /\ g_count' = IF Wrapper(o) THEN g_count + 1 ELSE g_count
            /\ g_reports' = Put(g_reports, name, Wrapper(o))
    /\ g_i' = g_i + 1
    /\ UNCHANGED <<dirty, tracking, g_op, g_pc, g_result, g_ret, g_status,
                   g_dirty0, g_runs>>
    /\ UNCHANGED <<projectVars, outsideGit>>

\* finished.emit(success_count == len(remotes), ...)
GitPushDone ==
    /\ g_pc = "push"
    /\ g_i > Len(repo_remotes)
    /\ g_result' = [success |-> g_count = Len(repo_remotes), message |-> MsgPushed]
    /\ g_pc' = "done"
    /\ UNCHANGED <<dirty, tracking, g_op, g_i, g_log, g_count, g_reports, g_ret,
                   g_status, g_dirty0, g_runs>>
    /\ UNCHANGED <<projectVars, outsideGit>>

\* one call of a wrapper of GitHelper
GitWrapperCall ==
    /\ g_pc = "idle"
    /\ g_runs = 0
    /\ g_runs' = g_runs + 1
    /\ g_op' = "wrapper"
    /\ \E cmd \in WrapperCmds, o \in GitOutcomes :
        /\ g_log' = <<Cmd(cmd, "", o)>>
        /\ g_ret' = Wrapper(o)
    /\ g_pc' = "done"
    /\ UNCHANGED <<dirty, tracking, g_i, g_count, g_reports, g_result, g_status,
                   g_dirty0>>
    /\ UNCHANGED <<projectVars, outsideGit>>

\* get_remote_status(remote) is entered for one of the remotes
GitStatusStart ==
    /\ g_pc = "idle"
    /\ g_runs = 0
    /\ g_runs' = g_runs + 1
    /\ g_op' = "status"
    /\ g_i' \in 1..Len(repo_remotes)
    /\ g_log' = <<>>
    /\ g_status' = InitialStatus
    /\ g_pc' = "fetch"
    /\ UNCHANGED <<dirty, tracking, g_count, g_reports, g_result, g_ret, g_dirty0>>
    /\ UNCHANGED <<projectVars, outsideGit>>

\* a status check that fetches again after a fetch that failed
AfterFetch_retry(o) == IF o = "ok" THEN "count" ELSE "fetch"
\* "self.fetch(remote)" is followed by the rev-list, whatever fetch returned
AfterFetch(o) == "count"

\* self.fetch(remote): the returned flag is dropped.  A fetch that succeeded
\* leaves the ref as the remote has it (there, or not when the remote has no
\* such branch); a fetch that failed leaves the ref as it was.
GitFetch ==
    /\ g_pc = "fetch"
    /\ \E o \in GitOutcomes :
        LET name == repo_remotes[g_i].name
        IN  /\ g_log' = Append(g_log, Cmd("fetch", name, o))
            /\ IF o = "ok"
               THEN tracking' \in {tracking \cup {name}, tracking \ {name}}
               ELSE tracking' = tracking
            /\ g_pc' = AfterFetch(o)
    /\ UNCHANGED <<dirty, g_op, g_i, g_count, g_reports, g_result, g_ret, g_status,
                   g_dirty0, g_runs>>
    /\ UNCHANGED <<projectVars, outsideGit>>

\* a status that reports no error for a failed command
StatusError_none(stderr) == "None"
\* status["error"] = result.stderr.strip() or "Unknown error"
StatusError(stderr) == IF stderr # <<>> THEN "stderr" ELSE "Unknown error"

\* a status that always allows the push
can_push_always(behind) == TRUE
\* "can_push": True, and "if status["behind"] > 0: status["can_push"] = False"
can_push(behind) == ~(behind > 0)

\* The dict built from "git rev-list --left-right --count HEAD...<remote>/<branch>"
\* run with check=False; a, b: the two numbers it printed
status_of(res, a, b) ==
    IF res.returncode = 0
    THEN [InitialStatus EXCEPT !.ahead = a, !.behind = b,
                               !.can_push = can_push(b)]
    ELSE [InitialStatus EXCEPT !.error = StatusError(res.stderr)]

\* rev-list exits with 0 iff the ref exists, unless it runs into the timeout
GitCount ==
    /\ g_pc = "count"
    /\ \E o \in GitOutcomes, a \in 0..MaxCount, b \in 0..MaxCount :
        LET name == repo_remotes[g_i].name
        IN  /\ o = "ok" => name \in tracking
            /\ o = "fail" => name \notin tracking
            /\ o # "ok" => (a = 0 /\ b = 0)
            /\ g_log' = Append(g_log, Cmd("rev-list", name, o))
            /\ g_status' = status_of(run_git(o, FALSE), a, b)
    /\ g_pc' = IF g_op = "status_all" THEN "found" ELSE "done"
    /\ UNCHANGED <<dirty, tracking, g_op, g_i, g_count, g_reports, g_result, g_ret,
                   g_dirty0, g_runs>>
    /\ UNCHANGED <<projectVars, outsideGit>>

\* SyncStatusWorker.run: remotes = git.get_remotes_with_details()
GitStatusAllStart ==
    /\ g_pc = "idle"
    /\ g_runs = 0
    /\ g_runs' = g_runs + 1
    /\ g_op' = "status_all"
    /\ g_i' = 1
    /\ g_log' = <<>>
    /\ g_found' = <<>>
    /\ g_status' = InitialStatus
    /\ g_pc' = IF repo_remotes = <<>> THEN "done" ELSE "fetch"
    /\ UNCHANGED <<dirty, tracking, g_count, g_reports, g_result, g_ret, g_dirty0>>
    /\ UNCHANGED <<g_out, g_hint, g_report>>
    /\ UNCHANGED <<projectVars, outsideSync>>

\* self.remote_found.emit(result), then the next remote
GitRemoteFound ==
    /\ g_pc = "found"
    /\ g_found' = Append(g_found, [name |-> repo_remotes[g_i].name,
                                   platform |-> repo_remotes[g_i].platform,
                                   ahead |-> g_status.ahead,
                                   behind |-> g_status.behind,
                                   error |-> g_status.error])
    /\ g_i' = g_i + 1
    /\ g_pc' = IF g_i + 1 > Len(repo_remotes) THEN "done" ELSE "fetch"
    /\ UNCHANGED <<dirty, tracking, g_op, g_log, g_count, g_reports, g_result, g_ret,
                   g_status, g_dirty0, g_runs>>
    /\ UNCHANGED <<g_out, g_hint, g_report>>
    /\ UNCHANGED <<projectVars, outsideSync>>

\* Texts: a text is a sequence of words and of runs of whitespace
Whitespace == {" ", "\n"}

\* what "git pull --rebase" and "git push --force" may print: stdout, stderr
Texts ==
    { <<<<>>, <<>>>>,
      <<<<"Already", " ", "up", " ", "to", " ", "date.", "\n">>, <<"\n">>>>,
      <<<<"CONFLICT", " ", "(content):", " ", "Merge", " ", "conflict", "\n">>,
        <<"error:", " ", "could", " ", "not", " ", "apply", "\n">>>>,
      <<<<>>, <<"fatal:", " ", "unresolved", " ", "conflict.", "\n">>>>,
      <<<<>>, <<" ", "!", " ", "[remote", " ", "rejected]", "\n">>>>,
      <<<<>>, <<"fatal:", " ", "unable", " ", "to", " ", "access">>>> }

\* str.lower() of one word
lower_word(wd) ==
    CASE wd = "CONFLICT" -> "conflict"
      [] wd = "Merge" -> "merge"
      [] wd = "Pull" -> "pull"
      [] wd = "Push" -> "push"
      [] wd = "Force" -> "force"
      [] wd = "Command" -> "command"
      [] wd = "GitHub.com" -> "github.com"
      [] OTHER -> wd

\* str.lower()
lower(text) == [i \in 1..Len(text) |-> lower_word(text[i])]

\* the search strings that occur in a word as it is written
Occurrences(wd) ==
    CASE wd = "CONFLICT" -> {"CONFLICT"}
      [] wd \in {"conflict", "conflicts", "conflict."} -> {"conflict"}
      [] wd = "github.com" -> {"github.com"}
      [] wd = "gitee.com" -> {"gitee.com"}
      [] wd = "gitea.local" -> {"gitea"}
      [] wd = "git.example.com" -> {"git."}
      [] OTHER -> {}

\* "pat in text"
In(pat, text) == \E i \in 1..Len(text) : pat \in Occurrences(text[i])

RECURSIVE lstrip(_)
lstrip(text) ==
    IF text # <<>> /\ Head(text) \in Whitespace THEN lstrip(Tail(text)) ELSE text

RECURSIVE rstrip(_)
rstrip(text) ==
    IF text # <<>> /\ text[Len(text)] \in Whitespace
    THEN rstrip(SubSeq(text, 1, Len(text) - 1))
    ELSE text

\* a strip that leaves the end of the text as it is
strip_leading(text) == lstrip(text)
\* str.strip()
strip(text) == rstrip(lstrip(text))

\* "a or b or c" of three strings
Or(a, b, c) == IF a # <<>> THEN a ELSE IF b # <<>> THEN b ELSE c

MsgPullOk == <<"Pull", " ", "rebase", " ", "successful">>
MsgConflicts == <<"Merge", " ", "conflicts", " ", "detected">>
MsgPullFailed == <<"Pull", " ", "failed">>
MsgForceOk == <<"Force", " ", "push", " ", "successful">>
MsgPushFailed == <<"Push", " ", "failed">>

\* _run_git(cmd, check=False) of a command that prints out and err
Completed(o, out, err) ==
    IF o = "timeout"
    THEN [returncode |-> run_git(o, FALSE).returncode, stdout |-> <<>>,
          stderr |-> run_git(o, FALSE).stderr]
    ELSE [returncode |-> run_git(o, FALSE).returncode, stdout |-> out,
          stderr |-> err]

\* GitHelper.pull_rebase
pull_rebase(res) ==
    IF res.returncode = 0
    THEN [success |-> TRUE, message |-> MsgPullOk]
    ELSE IF In("CONFLICT", res.stdout) \/ In("CONFLICT", res.stderr)
    THEN [success |-> FALSE, message |-> MsgConflicts]
    ELSE [success |-> FALSE,
          message |-> Or(strip(res.stderr), strip(res.stdout), MsgPullFailed)]

\* GitHelper.force_push
force_push(res) ==
    IF res.returncode = 0
    THEN [success |-> TRUE, message |-> MsgForceOk]
    ELSE [success |-> FALSE,
          message |-> Or(strip(res.stderr), strip(res.stdout), MsgPushFailed)]

\* SyncOperationWorker.run, operation "pull_rebase":
\* "if "conflict" in msg.lower():" shows the hint
GitPullRebase ==
    /\ g_pc = "idle"
    /\ g_runs = 0
    /\ g_runs' = g_runs + 1
    /\ g_op' = "pull_rebase"
    /\ \E i \in 1..Len(repo_remotes), o \in GitOutcomes, text \in Texts :
        LET res == Completed(o, text[1], text[2])
        IN  /\ g_log' = <<Cmd("pull", repo_remotes[i].name, o)>>
            /\ g_out' = res
            /\ g_result' = pull_rebase(res)
            /\ g_hint' = (~pull_rebase(res).success
                          /\ In("conflict", lower(pull_rebase(res).message)))
    /\ g_pc' = "done"
    /\ UNCHANGED <<dirty, tracking, g_i, g_count, g_reports, g_ret, g_status,
                   g_dirty0>>
    /\ UNCHANGED <<g_found, g_report>>
    /\ UNCHANGED <<projectVars, outsideSync>>

\* SyncOperationWorker.run, operation "force_push"
GitForcePush ==
    /\ g_pc = "idle"
    /\ g_runs = 0
    /\ g_runs' = g_runs + 1
    /\ g_op' = "force_push"
    /\ \E i \in 1..Len(repo_remotes), o \in GitOutcomes, text \in Texts :
        LET res == Completed(o, text[1], text[2])
        IN  /\ g_log' = <<Cmd("push", repo_remotes[i].name, o)>>
            /\ g_out' = res
            /\ g_result' = force_push(res)
    /\ g_pc' = "done"
    /\ UNCHANGED <<dirty, tracking, g_i, g_count, g_reports, g_ret, g_status,
                   g_dirty0>>
    /\ UNCHANGED <<g_found, g_hint, g_report>>
    /\ UNCHANGED <<projectVars, outsideSync>>

\* "if self.git.abort_rebase(): ... elif self.git.abort_merge(): ..."
MergeAbortAttempted(rebase_aborted) == ~rebase_aborted

\* QThread.isRunning(): true from start() until the thread has ended
isRunning(wk, k) == wk[k] # "none"

\* refresh_status_async(): the new worker table and refresh_btn state.
\* dialogs.py:347-369, main_window.py:791-806
refresh_status_async(wk, re) ==
    IF isRunning(wk, "sync")
    THEN [w |-> wk, refresh |-> re]
    ELSE [w |-> [wk EXCEPT !["sync"] = "running"], refresh |-> FALSE]

\* status_stale after a call of refresh_status_async
StaleAfterRefresh(wk, stale) == IF isRunning(wk, "sync") THEN stale ELSE FALSE

\* SyncDialog.abort_operation: the aborts, the log line and
\* self.refresh_status_async()
abort_operation ==
    /\ g_pc = "idle"
    /\ g_runs = 0
    /\ g_runs' = g_runs + 1
    /\ g_op' = "abort"
    /\ \E o1 \in GitOutcomes, o2 \in GitOutcomes :
        /\ g_log' = IF MergeAbortAttempted(Wrapper(o1))
                    THEN <<Cmd("abort_rebase", "", o1), Cmd("abort_merge", "", o2)>>
                    ELSE <<Cmd("abort_rebase", "", o1)>>
        /\ g_report' = IF Wrapper(o1) THEN "rebase aborted"
                       ELSE IF Wrapper(o2) THEN "merge aborted"
                       ELSE "nothing in progress"
    /\ g_pc' = "done"
    /\ UNCHANGED <<dirty, tracking, g_i, g_count, g_reports, g_result, g_ret,
                   g_status, g_dirty0>>
    /\ LET r == refresh_status_async(w, refresh_enabled)
       IN  /\ w' = r.w
           /\ refresh_enabled' = r.refresh
    /\ status_stale' = StaleAfterRefresh(w, status_stale)
    /\ UNCHANGED <<g_found, g_out, g_hint>>
    /\ UNCHANGED <<ui, ops_enabled, timer_pending, sig, operation, last_request,
                   last_reply, flight_at_request, aborted>>
    /\ UNCHANGED <<projectVars, srvVars, pubVars, wfVars, fullVars, confirmVars,
                   urlVars, refreshVars, itemVars, labelVars, flowVars,
                   cfgVars>>

\* run() or the call has returned
GitReturn ==
    /\ g_pc = "done"
    /\ g_pc' = "idle"
    /\ UNCHANGED <<dirty, tracking, g_op, g_i, g_log, g_count, g_reports, g_result,
                   g_ret, g_status, g_dirty0, g_runs>>
    /\ UNCHANGED <<projectVars, outsideGit>>

\* a git repository with its remotes, a clean or dirty working tree and the
\* remote-tracking refs earlier fetches have left
InitGit ==
    /\ is_git_repo = TRUE
    /\ repo_remotes \in SeqsNoRep(RemotePool, MaxRemotes)
    /\ tag_exists = FALSE
    /\ publish_to = <<>>
    /\ tokens = {}
    /\ repos = {}
    /\ gitea_url = FALSE
    /\ dirty \in BOOLEAN
    /\ tracking \in SUBSET { repo_remotes[i].name : i \in 1..Len(repo_remotes) }
    /\ g_op = "none"
    /\ g_pc = "idle"
    /\ g_i = 0
    /\ g_log = <<>>
    /\ g_count = 0
    /\ g_reports = <<>>
    /\ g_result = NoResult
    /\ g_ret = FALSE
    /\ g_status = InitialStatus
    /\ g_dirty0 = FALSE
    /\ g_runs = 0
    /\ SyncOff
    /\ UrlOff
    /\ AppOff
    /\ pub_platform = "github"
    /\ InitPublisher
    /\ srv_releases = [p \in Platforms |-> {}]
    /\ srv_assets = [p \in Platforms |-> 0]
    /\ wf_pc = "off"
    /\ remotes = <<>>
    /\ tag_outcome = "none"
    /\ wf_i = 0
    /\ pushlog = <<>>
    /\ push_ok = FALSE
    /\ results = <<>>
    /\ wf_called = <<>>
    /\ branch_fail = 0
    /\ overall = [returned |-> FALSE, success |-> FALSE]
    /\ GuiOff

NextGit ==
    \/ GitStart
    \/ GitCheckChanges
    \/ GitStage
    \/ GitCommit
    \/ GitPush
    \/ GitPushDone
    \/ GitWrapperCall
    \/ GitStatusStart
    \/ GitFetch
    \/ GitCount
    \/ GitStatusAllStart
    \/ GitRemoteFound
    \/ GitPullRebase
    \/ GitForcePush
    \/ abort_operation
    \/ GitReturn

SpecGit == InitGit /\ [][NextGit]_vars

-----------------------------------------------------------------------------
(* core/git_helper.py get_remotes, parse_repo_from_url,
   detect_platform_from_url *)

\* A URL is the sequence of its pieces: a scheme, "git@", ":", "/", ".git" or
\* a name, which has none of these in it.
HttpSchemes == {"https://", "http://"}
Schemes == HttpSchemes \cup {"ftp://", "ssh://"}
Hosts ==
    {"github.com", "GitHub.com", "gitee.com", "git.example.com", "gitea.local",
     "example.com"}
SegNames == {"owner", "repo", "github.com"}

SeqsUpTo(S, n) == UNION { [1..k -> S] : k \in 0..n }

RECURSIVE Path(_)
Path(segs) ==
    IF segs = <<>> THEN <<>> ELSE <<"/", Head(segs)>> \o Path(Tail(segs))

\* the URLs a remote may have
Urls ==
    { pre \o <<sch, h>> \o Path(segs) \o suf :
        pre \in {<<>>, <<"ssh://">>}, sch \in Schemes \ {"ssh://"}, h \in Hosts,
        segs \in SeqsUpTo(SegNames, MaxSegments),
        suf \in {<<>>, <<".git">>, <<"/">>, <<".git", "/">>} }
    \cup
    { pre \o <<"git@", h, ":">> \o (IF segs = <<>> THEN <<>> ELSE Tail(Path(segs)))
          \o suf :
        pre \in {<<>>, <<"ssh://">>}, h \in Hosts,
        segs \in SeqsUpTo(SegNames, MaxSegments),
        suf \in {<<>>, <<".git">>, <<"/">>, <<".git", "/">>} }

\* the pieces that [^/] and [^:] do not match
Slash == Schemes \cup {"/"}
Colon == Schemes \cup {":"}

\* the end of the longest run of pieces from position a on of which none is
\* in Not; less than a when there is none
RunEnd(u, a, Not) ==
    LET stop == { i \in a..Len(u) : u[i] \in Not }
    IN  IF stop = {} THEN Len(u)
        ELSE (CHOOSE i \in stop : \A j \in stop : i <= j) - 1

\* a pattern that keeps a trailing ".git" in the name of the repository
RepoEnd_greedy(u, a) == Len(u)
\* "([^/]+/[^/]+?)(?:\.git)?$": the group ends before a trailing ".git" when
\* something is left for the name of the repository
RepoEnd(u, a) ==
    IF u[Len(u)] = ".git" /\ Len(u) - 1 >= a THEN Len(u) - 1 ELSE Len(u)

\* "([^/]+/[^/]+?)(?:\.git)?$" matched from position a on: the group, or <<>>
OwnerRepo(u, a) ==
    LET q == RunEnd(u, a, Slash)
        r == RunEnd(u, q + 2, Slash)
    IN  IF /\ q >= a
           /\ q + 1 <= Len(u)
           /\ u[q + 1] = "/"
           /\ r >= q + 2
           /\ r = Len(u)
        THEN SubSeq(u, a, RepoEnd(u, q + 2))
        ELSE <<>>

\* r'https?://[^/]+/' matched at position k: where the group starts, or 0
HttpsHead(u, k) ==
    LET h == RunEnd(u, k + 1, Slash)
    IN  IF u[k] \in HttpSchemes /\ h >= k + 1 /\ h + 1 <= Len(u) /\ u[h + 1] = "/"
        THEN h + 2
        ELSE 0

\* r'git@[^:]+:' matched at position k: where the group starts, or 0
SshHead(u, k) ==
    LET h == RunEnd(u, k + 1, Colon)
    IN  IF u[k] = "git@" /\ h >= k + 1 /\ h + 1 <= Len(u) /\ u[h + 1] = ":"
        THEN h + 2
        ELSE 0

\* re.search(pattern, url) with one of the two patterns: group(1) of the
\* leftmost match, or <<>>
Search(u, pattern) ==
    LET at(k) == IF pattern = "https" THEN HttpsHead(u, k) ELSE SshHead(u, k)
        K == { k \in 1..Len(u) : at(k) # 0 /\ OwnerRepo(u, at(k)) # <<>> }
    IN  IF K = {} THEN <<>>
        ELSE OwnerRepo(u, at(CHOOSE k \in K : \A j \in K : k <= j))

\* GitHelper.parse_repo_from_url; <<>> stands for None
parse_repo_from_url(u) ==
    IF Search(u, "https") # <<>> THEN Search(u, "https")
    ELSE Search(u, "ssh")

\* GitHelper.detect_platform_from_url
detect_platform_from_url(u) ==
    LET url_lower == lower(u)
    IN  IF In("github.com", url_lower) THEN "github"
        ELSE IF In("gitee.com", url_lower) THEN "gitee"
        ELSE IF In("gitea", url_lower) \/ In("git.", url_lower) THEN "gitea"
        ELSE "None"

\* dict.get(key, default) of a dict that has the key
dict_get(value, default) == value

\* the lines "git remote -v" may print, each split into its fields
Lines ==
    { <<"origin", "u1", "(fetch)">>, <<"origin", "u2", "(push)">>,
      <<"fork", "u1", "(fetch)">>, <<"fork", "u2", "(push)">>,
      <<"origin">>, <<>> }

\* a dict whose entry for a name is replaced by every line for the name
Store_last(remotes_, name, u) ==
    IF \E i \in 1..Len(remotes_) : remotes_[i].name = name
    THEN [i \in 1..Len(remotes_) |->
            IF remotes_[i].name = name THEN [name |-> name, url |-> u]
            ELSE remotes_[i]]
    ELSE Append(remotes_, [name |-> name, url |-> u])
\* "if name not in remotes: remotes[name] = url"; a dict keeps the order in
\* which its keys were inserted
Store(remotes_, name, u) ==
    IF \E i \in 1..Len(remotes_) : remotes_[i].name = name
    THEN remotes_
    ELSE Append(remotes_, [name |-> name, url |-> u])

\* GitHelper.get_remotes on the lines of the output, read from the first of
\* them on
RECURSIVE get_remotes(_, _)
get_remotes(lines, remotes_) ==
    IF lines = <<>> THEN remotes_
    ELSE LET parts == Head(lines)
         IN  IF Len(parts) >= 2
             THEN get_remotes(Tail(lines), Store(remotes_, parts[1], parts[2]))
             ELSE get_remotes(Tail(lines), remotes_)

\* remote['platform'] = self.detect_platform_from_url(url), read by the status
\* worker with remote.get("platform", "unknown")
Classify ==
    /\ "classify" \notin u_done
    /\ u_platform' = dict_get(detect_platform_from_url(remote_url), "unknown")
    /\ u_done' = u_done \cup {"classify"}
    /\ UNCHANGED <<remote_url, listing, u_repo, u_remotes>>
    /\ UNCHANGED <<srvVars, pubVars, projectVars, wfVars, guiVars, fullVars, gitVars,
                   syncVars, confirmVars, appVars>>

\* remote['repo'] = self.parse_repo_from_url(url)
ExtractRepoId ==
    /\ "extract_repo_id" \notin u_done
    /\ u_repo' = parse_repo_from_url(remote_url)
    /\ u_done' = u_done \cup {"extract_repo_id"}
    /\ UNCHANGED <<remote_url, listing, u_platform, u_remotes>>
    /\ UNCHANGED <<srvVars, pubVars, projectVars, wfVars, guiVars, fullVars, gitVars,
                   syncVars, confirmVars, appVars>>

\* remotes = self.get_remotes()
ListRemotes ==
    /\ "list_remotes" \notin u_done
    /\ u_remotes' = get_remotes(listing, <<>>)
    /\ u_done' = u_done \cup {"list_remotes"}
    /\ UNCHANGED <<remote_url, listing, u_platform, u_repo>>
    /\ UNCHANGED <<srvVars, pubVars, projectVars, wfVars, guiVars, fullVars, gitVars,
                   syncVars, confirmVars, appVars>>

\* a URL, or the output of "git remote -v"
InitUrl ==
    /\ \/ remote_url \in Urls /\ listing = <<>>
       \/ remote_url = <<>> /\ listing \in SeqsUpTo(Lines, MaxLines)
    /\ u_platform = "none"
    /\ u_repo = <<>>
    /\ u_remotes = <<>>
    /\ u_done = {}
    /\ is_git_repo = TRUE
    /\ repo_remotes = <<>>
    /\ tag_exists = FALSE
    /\ publish_to = <<>>
    /\ tokens = {}
    /\ repos = {}
    /\ gitea_url = FALSE
    /\ dirty = FALSE
    /\ tracking = {}
    /\ g_op = "none"
    /\ g_pc = "idle"
    /\ g_i = 0
    /\ g_log = <<>>
    /\ g_count = 0
    /\ g_reports = <<>>
    /\ g_result = NoResult
    /\ g_ret = FALSE
    /\ g_status = InitialStatus
    /\ g_dirty0 = FALSE
    /\ g_runs = 0
    /\ SyncOff
    /\ pub_platform = "github"
    /\ InitPublisher
    /\ srv_releases = [p \in Platforms |-> {}]
    /\ srv_assets = [p \in Platforms |-> 0]
    /\ wf_pc = "off"
    /\ remotes = <<>>
    /\ tag_outcome = "none"
    /\ wf_i = 0
    /\ pushlog = <<>>
    /\ push_ok = FALSE
    /\ results = <<>>
    /\ wf_called = <<>>
    /\ branch_fail = 0
    /\ overall = [returned |-> FALSE, success |-> FALSE]
    /\ GuiOff
    /\ AppOff

NextUrl ==
    \/ Classify
    \/ ExtractRepoId
    \/ ListRemotes

SpecUrl == InitUrl /\ [][NextUrl]_vars

-----------------------------------------------------------------------------
(* gui/dialogs.py and gui/main_window.py: SyncDialog, MainWindow.package_project
   and MainWindow.publish_project.  The handlers run on the GUI thread, one at
   a time; a click reaches its handler only while the button is enabled. *)

\* workers whose run() changes the repository, the archive or a platform
Mutating == {"operation", "package", "publish"}

Operations == {"pull_rebase", "force_push", "push_all", "commit_and_push_all"}

\* the mutating workers whose thread runs
InFlight == { k \in Mutating : w[k] = "running" }

\* at most MaxPending finished signals of the status worker wait for the GUI
\* thread
SyncStartable == isRunning(w, "sync") \/ sig["sync"] < MaxPending

\* the request, its answer and whether a mutating worker was running
Answer(req, rep) ==
    /\ last_request' = req
    /\ last_reply' = rep
    /\ flight_at_request' = (InFlight # {})

\* self.<k>_worker = Worker(...); ...; self.<k>_worker.start()
\* Rebinding the attribute drops the previous QThread object; Qt aborts the
\* process when that object's thread is still running.
StartWorker(k) ==
    /\ sig[k] < MaxPending
    /\ IF isRunning(w, k)
       THEN /\ aborted' = TRUE
            /\ w' = w
       ELSE /\ aborted' = FALSE
            /\ w' = [w EXCEPT ![k] = "running"]

\* "if self.operation_worker and self.operation_worker.isRunning():" of the
\* four sync requests
OperationBusy == isRunning(w, "operation")

\* do_pull_rebase, do_force_push, do_push_all, do_commit_and_push_all after
\* their input checks (valid: a remote is selected, the user confirmed, the
\* changelog is not empty)
StartOperation(op, valid) ==
    IF ~valid
    THEN /\ Answer(op, "invalid")
         /\ UNCHANGED <<ops_enabled, refresh_enabled, w, operation, aborted>>
    ELSE IF OperationBusy
    THEN /\ Answer(op, "busy")
         /\ UNCHANGED <<ops_enabled, refresh_enabled, w, operation, aborted>>
    ELSE /\ Answer(op, "started")
         /\ ops_enabled' = FALSE
         /\ refresh_enabled' = FALSE
         /\ StartWorker("operation")
         /\ operation' = op

DialogOpen == ui # "none" /\ ~aborted

do_pull_rebase ==
    /\ DialogOpen
    /\ ops_enabled
    /\ \E remote \in BOOLEAN : StartOperation("pull_rebase", remote)
    /\ UNCHANGED <<ui, timer_pending, sig, outsideGui>>

\* the remote selected in the combo box
SelectedRemote == <<"origin">>

\* what the user may type into the second dialog
ConfirmTexts == { <<"origin">>, <<" ", "origin", " ">>, <<"upstream">>, <<>> }

\* a handler that starts the worker after the warning box alone
Confirmed_by_yes(path, yes, ok, text) == yes
\* "if reply != QMessageBox.Yes: return", and in dialogs.py
\* "if not ok or confirm_text.strip() != remote: ... return"
Confirmed(path, yes, ok, text) ==
    yes /\ (path = "dialogs" => (ok /\ strip(text) = SelectedRemote))

\* the warning box, and in dialogs.py the typed remote name
do_force_push ==
    /\ DialogOpen
    /\ ops_enabled
    /\ \E remote \in BOOLEAN, yes \in BOOLEAN, ok \in BOOLEAN, text \in ConfirmTexts :
        LET valid == remote /\ Confirmed(ui, yes, ok, text)
        IN  \* a dialog that was not shown or was cancelled has no answer
            /\ ~remote => ~yes
            /\ (~yes \/ ui # "dialogs") => ~ok
            /\ ~ok => text = <<>>
            /\ StartOperation("force_push", valid)
            /\ fp_confirm' =
                  IF valid /\ ~OperationBusy
                  THEN IF ui = "dialogs"
                       THEN [started |-> TRUE, yes |-> yes, asked |-> TRUE,
                             ok |-> ok, text |-> text]
                       ELSE [started |-> TRUE, yes |-> yes, asked |-> FALSE,
                             ok |-> FALSE, text |-> <<>>]
                  ELSE fp_confirm
    /\ UNCHANGED <<ui, timer_pending, sig>>
    /\ UNCHANGED <<srvVars, pubVars, projectVars, wfVars, fullVars, gitVars, syncVars,
                   urlVars, appVars>>

do_push_all ==
    /\ DialogOpen
    /\ ops_enabled
    /\ StartOperation("push_all", TRUE)
    /\ UNCHANGED <<ui, timer_pending, sig, outsideGui>>

do_commit_and_push_all ==
    /\ DialogOpen
    /\ ops_enabled
    /\ \E changelog \in BOOLEAN : StartOperation("commit_and_push_all", changelog)
    /\ UNCHANGED <<ui, timer_pending, sig, outsideGui>>

\* dialogs.py SyncDialog.do_package: no isRunning check; the buttons are
\* disabled and a PackageWorker is started.
\* main_window.py MainWindow.package_project (called by SyncDialog.do_package):
\* busy iff its own package_worker runs; the dialog's buttons stay as they are.
Package(req) ==
    IF ui = "dialogs"
    THEN /\ Answer(req, "started")
         /\ ops_enabled' = FALSE
         /\ refresh_enabled' = FALSE
         /\ StartWorker("package")
    ELSE IF isRunning(w, "package")
    THEN /\ Answer(req, "busy")
         /\ UNCHANGED <<ops_enabled, refresh_enabled, w, aborted>>
    ELSE /\ Answer(req, "started")
         /\ StartWorker("package")
         /\ UNCHANGED <<ops_enabled, refresh_enabled>>

do_package ==
    /\ DialogOpen
    /\ ops_enabled
    /\ Package("package")
    /\ UNCHANGED <<ui, timer_pending, sig, operation, outsideGui>>

\* dialogs.py SyncDialog.do_publish / main_window.py MainWindow.publish_project
\* platforms: publish_to is not empty; zip: the archive of this version exists;
\* yes: the answer to "package first?"
do_publish ==
    /\ DialogOpen
    /\ ops_enabled
    /\ \E platforms \in BOOLEAN, zip \in BOOLEAN, yes \in BOOLEAN :
        IF ui = "main_window" /\ isRunning(w, "publish")
        THEN /\ Answer("publish", "busy")
             /\ UNCHANGED <<ops_enabled, refresh_enabled, w, aborted>>
        ELSE IF ~platforms \/ (~zip /\ ~yes)
        THEN /\ Answer("publish", "invalid")
             /\ UNCHANGED <<ops_enabled, refresh_enabled, w, aborted>>
        ELSE IF ~zip
        THEN Package("publish")
        ELSE /\ Answer("publish", "started")
             /\ ops_enabled' = (ui # "dialogs" /\ ops_enabled)
             /\ refresh_enabled' = (ui # "dialogs" /\ refresh_enabled)
             /\ StartWorker("publish")
    /\ UNCHANGED <<ui, timer_pending, sig, operation, outsideGui>>

\* refresh_btn.clicked
do_refresh ==
    /\ DialogOpen
    /\ refresh_enabled
    /\ SyncStartable
    /\ LET r == refresh_status_async(w, refresh_enabled)
       IN  /\ w' = r.w
           /\ refresh_enabled' = r.refresh
    /\ status_stale' = StaleAfterRefresh(w, status_stale)
    /\ UNCHANGED <<ui, ops_enabled, timer_pending, sig, operation, last_request,
                   last_reply, flight_at_request, aborted, outsideDialog>>

\* QTimer.singleShot(100, self.refresh_status_async) of __init__
TimerFires ==
    /\ DialogOpen
    /\ timer_pending
    /\ SyncStartable
    /\ timer_pending' = FALSE
    /\ LET r == refresh_status_async(w, refresh_enabled)
       IN  /\ w' = r.w
           /\ refresh_enabled' = r.refresh
    /\ status_stale' = StaleAfterRefresh(w, status_stale)
    /\ UNCHANGED <<ui, ops_enabled, sig, operation, last_request,
                   last_reply, flight_at_request, aborted, outsideDialog>>

\* the end of a worker's run(): self.finished.emit(...) is queued for the GUI
\* thread; the thread itself ends a moment later
WorkerEmits ==
    /\ ~aborted
    /\ \E k \in Workers :
        /\ w[k] = "running"
        /\ w' = [w EXCEPT ![k] = "emitted"]
        /\ sig' = [sig EXCEPT ![k] = @ + 1]
        /\ status_stale' = (k = "operation" \/ status_stale)
    /\ UNCHANGED <<ui, ops_enabled, refresh_enabled, timer_pending, operation,
                   last_request, last_reply, flight_at_request, aborted,
                   outsideDialog>>

WorkerExits ==
    /\ ~aborted
    /\ \E k \in Workers :
        /\ w[k] = "emitted"
        /\ w' = [w EXCEPT ![k] = "none"]
    /\ UNCHANGED <<ui, ops_enabled, refresh_enabled, timer_pending, sig, operation,
                   last_request, last_reply, flight_at_request, aborted, outsideGui>>

\* PublishWorker.run left by the TypeError of get_publisher: finished is never
\* emitted.  PyQt either prints the traceback and lets the thread end or aborts
\* the process, depending on its version.
PublishWorkerRaises ==
    /\ ~aborted
    /\ w["publish"] = "running"
    /\ \E fatal \in BOOLEAN :
        /\ aborted' = fatal
        /\ w' = IF fatal THEN w ELSE [w EXCEPT !["publish"] = "none"]
    /\ UNCHANGED <<ui, ops_enabled, refresh_enabled, timer_pending, sig, operation,
                   last_request, last_reply, flight_at_request, outsideGui>>

\* dialogs.py:407-412 enables every operation button; main_window.py:843-846
\* enables refresh_btn only
on_status_check_finished ==
    /\ DialogOpen
    /\ sig["sync"] > 0
    /\ sig' = [sig EXCEPT !["sync"] = @ - 1]
    /\ refresh_enabled' = TRUE
    /\ ops_enabled' = IF ui = "dialogs" THEN TRUE ELSE ops_enabled
    /\ UNCHANGED <<ui, timer_pending, w, operation, last_request, last_reply,
                   flight_at_request, aborted, outsideGui>>

\* on_operation_finished and on_commit_push_finished
on_operation_finished ==
    /\ DialogOpen
    /\ sig["operation"] > 0
    /\ SyncStartable
    /\ sig' = [sig EXCEPT !["operation"] = @ - 1]
    /\ ops_enabled' = TRUE
    /\ LET r == refresh_status_async(w, TRUE)
       IN  /\ w' = r.w
           /\ refresh_enabled' = r.refresh
    /\ status_stale' = StaleAfterRefresh(w, status_stale)
    /\ UNCHANGED <<ui, timer_pending, operation, last_request, last_reply,
                   flight_at_request, aborted, outsideDialog>>

\* dialogs.py:747-753 enables the buttons; MainWindow.on_package_finished only
\* remembers the archive path
on_package_finished ==
    /\ DialogOpen
    /\ sig["package"] > 0
    /\ sig' = [sig EXCEPT !["package"] = @ - 1]
    /\ ops_enabled' = IF ui = "dialogs" THEN TRUE ELSE ops_enabled
    /\ refresh_enabled' = IF ui = "dialogs" THEN TRUE ELSE refresh_enabled
    /\ UNCHANGED <<ui, timer_pending, w, operation, last_request, last_reply,
                   flight_at_request, aborted, outsideGui>>

\* dialogs.py:811-820 enables the buttons and refreshes the status;
\* MainWindow.on_publish_finished touches the main window only
on_publish_finished ==
    /\ DialogOpen
    /\ sig["publish"] > 0
    /\ SyncStartable
    /\ sig' = [sig EXCEPT !["publish"] = @ - 1]
    /\ IF ui = "dialogs"
       THEN /\ ops_enabled' = TRUE
            /\ LET r == refresh_status_async(w, TRUE)
               IN  /\ w' = r.w
                   /\ refresh_enabled' = r.refresh
       ELSE UNCHANGED <<ops_enabled, refresh_enabled, w>>
    /\ status_stale' = IF ui = "dialogs" THEN StaleAfterRefresh(w, status_stale)
                       ELSE status_stale
    /\ UNCHANGED <<ui, timer_pending, operation, last_request, last_reply,
                   flight_at_request, aborted, outsideDialog>>

\* SyncDialog.__init__: every button enabled, no worker, the timer armed
InitGui ==
    /\ GitOff
    /\ UrlOff
    /\ AppOff
    /\ ui \in {"dialogs", "main_window"}
    /\ ops_enabled = TRUE
    /\ refresh_enabled = TRUE
    /\ timer_pending = TRUE
    /\ w = [k \in Workers |-> "none"]
    /\ sig = [k \in Workers |-> 0]
    /\ operation = "none"
    /\ last_request = "none"
    /\ last_reply = "none"
    /\ flight_at_request = FALSE
    /\ aborted = FALSE
    /\ pub_platform = "github"
    /\ InitPublisher
    /\ srv_releases = [p \in Platforms |-> {}]
    /\ srv_assets = [p \in Platforms |-> 0]
    /\ WorkflowOff
    /\ ConfirmOff

NextGui ==
    \/ TimerFires
    \/ do_refresh
    \/ do_pull_rebase
    \/ do_force_push
    \/ do_push_all
    \/ do_commit_and_push_all
    \/ do_package
    \/ do_publish
    \/ WorkerEmits
    \/ WorkerExits
    \/ PublishWorkerRaises
    \/ on_status_check_finished
    \/ on_operation_finished
    \/ on_package_finished
    \/ on_publish_finished

SpecGui == InitGui /\ [][NextGui]_vars

\* the dialog with its sync operations alone: no timer, no packaging and no
\* publishing
NextForcePush ==
    \/ do_force_push
    \/ do_pull_rebase
    \/ WorkerEmits
    \/ WorkerExits
    \/ on_status_check_finished
    \/ on_operation_finished

SpecForcePush == InitGui /\ [][NextForcePush]_vars

\* the sync dialog with its status checks and its pull and force push; the
\* GUI thread handles every queued signal and every thread that runs comes to
\* its end, while the user is free to do nothing
NextSyncDialog ==
    \/ TimerFires
    \/ do_refresh
    \/ NextForcePush

SpecSyncDialog ==
    /\ InitGui
    /\ [][NextSyncDialog]_vars
    /\ WF_vars(TimerFires)
    /\ WF_vars(WorkerEmits)
    /\ WF_vars(WorkerExits)
    /\ WF_vars(on_status_check_finished)
    /\ WF_vars(on_operation_finished)

-----------------------------------------------------------------------------
(* RefreshWorker.run: the status of a project and of its platforms *)

MaxFetched == 3
MaxVer == 1

\* what detect_platform_from_url stored in remote["platform"]
RefreshPlatforms == {"github", "gitee", "None"}

\* version tuples as the parsers return them
Versions == { <<a, b, c>> : a \in 0..MaxVer, b \in 0..MaxVer, c \in 0..MaxVer }

\* the versions that the remotes of one refresh may carry
Released == { <<1, 0, 0>>, <<1, 1, 0>> }

\* what "git show <remote>/<branch>:<file>" gave and what the parser finds in
\* it: no content (exit code not 0, a timeout, an empty file), content
\* without a version, content with a version
Contents(V) ==
    { [found |-> FALSE, version |-> <<>>], [found |-> TRUE, version |-> <<>>] }
    \cup { [found |-> TRUE, version |-> v] : v \in V }

\* Python's "if x:" for a tuple or None
truthy(x) == x # <<>>

\* "if not platform: continue" lets these pass
HasPlatform(platform) == platform \notin {"None", ""}

\* Python's a < b on two tuples of integers
tuple_lt_by_patch(a, b) ==
    \E k \in 1..Len(a) :
        /\ k <= Len(b)
        /\ a[k] < b[k]
        /\ \A j \in (k+1)..Len(a) : j <= Len(b) => a[j] = b[j]
tuple_lt(a, b) ==
    \/ \E k \in 1..Len(a) :
        /\ k <= Len(b)
        /\ a[k] < b[k]
        /\ \A j \in 1..(k-1) : a[j] = b[j]
    \/ /\ Len(a) < Len(b)
       /\ \A j \in 1..Len(a) : a[j] = b[j]

\* a > b is b < a
tuple_gt(a, b) == tuple_lt(b, a)

\* workers.py:124-143: (status, color) of a platform whose remote version was
\* parsed; version is the version_str inside the status text.  main_window.py
\* uses "#333" where workers.py has "#d0d0d0".
version_label(local_version, remote_version) ==
    IF truthy(local_version)
    THEN IF tuple_gt(local_version, remote_version)
         THEN [status |-> "local_newer", version |-> remote_version, color |-> "green"]
         ELSE IF tuple_lt(local_version, remote_version)
         THEN [status |-> "remote_newer", version |-> remote_version,
               color |-> "orange"]
         ELSE [status |-> "synced", version |-> remote_version, color |-> "#d0d0d0"]
    ELSE [status |-> "version", version |-> remote_version, color |-> "#d0d0d0"]

Unparsable == [status |-> "unparsable", version |-> <<>>, color |-> "gray"]
NoRemoteData == [status |-> "no_remote_data", version |-> <<>>, color |-> "gray"]

\* "if platform not in platform_status: platform_status[platform] = (..., "gray")"
StoreFailure_always(d, platform, entry) == Put(d, platform, entry)
StoreFailure(d, platform, entry) ==
    IF platform \in DOMAIN d THEN d ELSE Put(d, platform, entry)

\* "if platform in platform_status and platform_status[platform][1] != "gray""
HasSuccess(d, platform) == platform \in DOMAIN d /\ d[platform].color # "gray"

\* the entry of the platform after the remote's content was looked at
AfterContent(d, platform, content, local_version) ==
    IF content.found
    THEN IF truthy(content.version)
         THEN Put(d, platform, version_label(local_version, content.version))
         ELSE StoreFailure(d, platform, Unparsable)
    ELSE StoreFailure(d, platform, NoRemoteData)

\* item_status of RefreshWorker.run, workers.py:166-174
RefreshWorker_item_status_behind_first(has_changes, ahead, behind) ==
    IF has_changes THEN "modified"
    ELSE IF behind > 0 THEN "behind"
    ELSE IF ahead > 0 THEN "ahead"
    ELSE "synced"
RefreshWorker_item_status(has_changes, ahead, behind) ==
    IF has_changes THEN "modified"
    ELSE IF ahead > 0 THEN "ahead"
    ELSE IF behind > 0 THEN "behind"
    ELSE "synced"

outsideRefresh == <<srvVars, pubVars, wfVars, guiVars, fullVars, gitVars, syncVars,
                    confirmVars, urlVars, itemVars, labelVars, flowVars, cfgVars,
                    staleVars>>

\* "if not git.is_git_repo(): ...; self.finished.emit(result); return";
\* remotes = git.get_remotes_with_details()
RefreshStart ==
    /\ rf_pc = "off"
    /\ rf_pc' = IF is_git_repo THEN "fetch" ELSE "finished"
    /\ rf_i' = 1
    /\ UNCHANGED <<rf_remotes, rf_local, rf_changes, platform_status, rf_log,
                   rf_stores, item_status>>
    /\ UNCHANGED <<projectVars, outsideRefresh>>

\* "for remote in remotes: ...; git.fetch(name)": what fetch returns is dropped
RefreshFetch ==
    /\ rf_pc = "fetch"
    /\ rf_i <= Len(rf_remotes)
    /\ rf_log' = Append(rf_log, [cmd |-> "fetch", i |-> rf_i])
    /\ rf_i' = rf_i + 1
    /\ UNCHANGED <<rf_remotes, rf_local, rf_pc, rf_changes, platform_status,
                   rf_stores, item_status>>
    /\ UNCHANGED <<projectVars, outsideRefresh>>

\* result["has_changes"] = git.has_local_changes(); the local version is read;
\* platform_status = {}
RefreshLocal ==
    /\ rf_pc = "fetch"
    /\ rf_i > Len(rf_remotes)
    /\ \E has_changes \in BOOLEAN : rf_changes' = has_changes
    /\ \E v \in Released \cup {<<>>} : rf_local' = v
    /\ platform_status' = <<>>
    /\ rf_pc' = "platforms"
    /\ rf_i' = 1
    /\ UNCHANGED <<rf_remotes, rf_log, rf_stores, item_status>>
    /\ UNCHANGED <<projectVars, outsideRefresh>>

\* one iteration of "for remote in remotes:" over the platforms
RefreshPlatform ==
    /\ rf_pc = "platforms"
    /\ rf_i <= Len(rf_remotes)
    /\ LET platform == rf_remotes[rf_i]
       IN  IF ~HasPlatform(platform) \/ HasSuccess(platform_status, platform)
           THEN UNCHANGED <<platform_status, rf_log, rf_stores>>
           ELSE \E content \in Contents(Released) :
                 LET d == AfterContent(platform_status, platform, content, rf_local)
                 IN  /\ platform_status' = d
                     /\ rf_log' = Append(rf_log, [cmd |-> "show", i |-> rf_i])
                     /\ rf_stores' =
                          IF d = platform_status
                          THEN rf_stores
                          ELSE Append(rf_stores,
                                 [i |-> rf_i, platform |-> platform,
                                  color |-> d[platform].color,
                                  over |-> IF platform \in DOMAIN platform_status
                                           THEN platform_status[platform].color
                                           ELSE "none"])
    /\ rf_i' = rf_i + 1
    /\ UNCHANGED <<rf_remotes, rf_local, rf_pc, rf_changes, item_status>>
    /\ UNCHANGED <<projectVars, outsideRefresh>>

\* ahead, behind = git.is_ahead_of_remote(); item_status; finished
RefreshFinish ==
    /\ rf_pc = "platforms"
    /\ rf_i > Len(rf_remotes)
    /\ \E ahead \in 0..MaxCount, behind \in 0..MaxCount :
        item_status' = RefreshWorker_item_status(rf_changes, ahead, behind)
    /\ rf_pc' = "finished"
    /\ UNCHANGED <<rf_remotes, rf_local, rf_i, rf_changes, platform_status, rf_log,
                   rf_stores>>
    /\ UNCHANGED <<projectVars, outsideRefresh>>

\* every part of the program at rest, no project configured
Quiet ==
    /\ GitOff
    /\ UrlOff
    /\ GuiOff
    /\ pub_platform = "github"
    /\ InitPublisher
    /\ srv_releases = [p \in Platforms |-> {}]
    /\ srv_assets = [p \in Platforms |-> 0]
    /\ repo_remotes = <<>>
    /\ tag_exists = FALSE
    /\ publish_to = <<>>
    /\ tokens = {}
    /\ repos = {}
    /\ gitea_url = FALSE
    /\ wf_pc = "off"
    /\ remotes = <<>>
    /\ tag_outcome = "none"
    /\ wf_i = 0
    /\ pushlog = <<>>
    /\ push_ok = FALSE
    /\ results = <<>>
    /\ wf_called = <<>>
    /\ branch_fail = 0
    /\ overall = [returned |-> FALSE, success |-> FALSE]

InitRefresh ==
    /\ Quiet
    /\ is_git_repo \in BOOLEAN
    /\ rf_remotes \in SeqsUpTo(RefreshPlatforms, MaxFetched)
    /\ rf_local = <<>>
    /\ rf_pc = "off"
    /\ rf_i = 0
    /\ rf_changes = FALSE
    /\ platform_status = <<>>
    /\ rf_log = <<>>
    /\ rf_stores = <<>>
    /\ item_status = "unknown"
    /\ ItemOff
    /\ LabelOff
    /\ FlowOff
    /\ CfgOff
    /\ status_stale = FALSE

NextRefresh ==
    \/ RefreshStart
    \/ RefreshFetch
    \/ RefreshLocal
    \/ RefreshPlatform
    \/ RefreshFinish

SpecRefresh == InitRefresh /\ [][NextRefresh]_vars

\* the label of one platform for every pair of a local and a remote version
outsideLabel == <<srvVars, pubVars, projectVars, wfVars, guiVars, fullVars, gitVars,
                  syncVars, confirmVars, urlVars, refreshVars, itemVars, flowVars,
                  cfgVars, staleVars>>

\* workers.py:129-147 for a remote_content whose version was parsed
Label ==
    /\ lb_out = NoEntry
    /\ lb_out' = version_label(lb_local, lb_remote)
    /\ UNCHANGED <<lb_local, lb_remote, outsideLabel>>

InitLabel ==
    /\ Quiet
    /\ is_git_repo = TRUE
    /\ RefreshOff
    /\ ItemOff
    /\ FlowOff
    /\ CfgOff
    /\ status_stale = FALSE
    /\ lb_local \in Versions \cup {<<>>}
    /\ lb_remote \in Versions
    /\ lb_out = NoEntry

NextLabel == Label

SpecLabel == InitLabel /\ [][NextLabel]_vars

-----------------------------------------------------------------------------
(* The item status of a project, by its three implementations *)

\* status of ProjectStatusWorker.run, workers.py:410-417
ProjectStatusWorker_status(has_changes, ahead, behind) ==
    IF has_changes THEN "modified"
    ELSE IF ahead > 0 THEN "ahead"
    ELSE IF behind > 0 THEN "behind"
    ELSE "synced"

\* ProjectService.get_quick_status, project_service.py:152-162
get_quick_status(has_changes, ahead, behind) ==
    IF has_changes THEN "modified"
    ELSE IF ahead > 0 THEN "ahead"
    ELSE IF behind > 0 THEN "behind"
    ELSE "synced"

\* what is found at the path of the project
ItemInputs ==
    { [repo |-> "repo", has_changes |-> c, ahead |-> a, behind |-> b] :
        c \in BOOLEAN, a \in 0..MaxCount, b \in 0..MaxCount }
    \cup { [repo |-> r, has_changes |-> FALSE, ahead |-> 0, behind |-> 0] :
             r \in {"missing", "not_git"} }

outsideItem == <<srvVars, pubVars, projectVars, wfVars, guiVars, fullVars, gitVars,
                 syncVars, confirmVars, urlVars, refreshVars, labelVars, flowVars,
                 cfgVars, staleVars>>

\* RefreshWorker.run: item_status stays "unknown" without a git repository
ItemRefresh ==
    /\ it_out["RefreshWorker"] = "none"
    /\ it_out' = [it_out EXCEPT !["RefreshWorker"] =
                    IF it_in.repo # "repo" THEN "unknown"
                    ELSE RefreshWorker_item_status(it_in.has_changes, it_in.ahead,
                                                   it_in.behind)]
    /\ UNCHANGED <<it_in, outsideItem>>

\* ProjectStatusWorker.run
ItemProjectStatus ==
    /\ it_out["ProjectStatusWorker"] = "none"
    /\ it_out' = [it_out EXCEPT !["ProjectStatusWorker"] =
                    IF it_in.repo # "repo" THEN it_in.repo
                    ELSE ProjectStatusWorker_status(it_in.has_changes, it_in.ahead,
                                                    it_in.behind)]
    /\ UNCHANGED <<it_in, outsideItem>>

\* ProjectService.get_quick_status
ItemQuickStatus ==
    /\ it_out["get_quick_status"] = "none"
    /\ it_out' = [it_out EXCEPT !["get_quick_status"] =
                    IF it_in.repo # "repo" THEN it_in.repo
                    ELSE get_quick_status(it_in.has_changes, it_in.ahead,
                                          it_in.behind)]
    /\ UNCHANGED <<it_in, outsideItem>>

InitItem ==
    /\ Quiet
    /\ is_git_repo = TRUE
    /\ RefreshOff
    /\ LabelOff
    /\ FlowOff
    /\ CfgOff
    /\ status_stale = FALSE
    /\ it_in \in ItemInputs
    /\ it_out = [m \in ItemImplementations |-> "none"]

NextItem ==
    \/ ItemRefresh
    \/ ItemProjectStatus
    \/ ItemQuickStatus

SpecItem == InitItem /\ [][NextItem]_vars

-----------------------------------------------------------------------------
(* PublishService.full_publish_workflow: commit, package, publish *)

NoCommit == [success |-> FALSE, committed |-> FALSE]

\* what commit_and_push_all returns: not a repository, nothing to commit,
\* staging or commit failed, or the commit was made and the pushes counted
commit_and_push_all(repo, has_changes, committed, pushed) ==
    IF ~repo \/ ~has_changes \/ ~committed
    THEN NoCommit
    ELSE [success |-> pushed, committed |-> TRUE]

\* "if not result["package_result"]["success"]: ...; return result"
AfterPackage_always(success) == "publish"
AfterPackage(success) == IF success THEN "publish" ELSE "returned"

outsideFlow == <<srvVars, pubVars, projectVars, guiVars, fullVars, syncVars,
                 confirmVars, urlVars, refreshVars, itemVars, labelVars, cfgVars,
                 staleVars>>
gitRest == <<tracking, g_op, g_pc, g_i, g_log, g_count, g_reports, g_result, g_ret,
             g_status, g_dirty0, g_runs>>

\* step 1, "if commit_message:": result["commit_result"] =
\* self.commit_and_push_all(...); the result is not looked at
FlowCommit ==
    /\ f_pc = "start"
    /\ f_message
    /\ \E committed \in BOOLEAN, pushed \in BOOLEAN :
        LET r == commit_and_push_all(is_git_repo, dirty, committed, pushed)
        IN  /\ f_commit' = IF r.success THEN "ok" ELSE "failed"
            /\ dirty' = (dirty /\ ~r.committed)
    /\ f_steps' = Append(f_steps, "commit")
    /\ f_pc' = "package"
    /\ UNCHANGED <<f_message, f_package, wfVars, gitRest, outsideFlow>>

\* step 2: result["package_result"] = self.package_project(...), which
\* returns a dict on every path
FlowPackage ==
    /\ \/ f_pc = "package"
       \/ f_pc = "start" /\ ~f_message
    /\ \E success \in BOOLEAN :
        /\ f_package' = IF success THEN "ok" ELSE "failed"
        /\ f_pc' = AfterPackage(success)
    /\ f_steps' = Append(f_steps, "package")
    /\ UNCHANGED <<f_message, f_commit, wfVars, gitVars, outsideFlow>>

\* step 3: self.publish_to_platforms(project, zip_path, ...) is entered
FlowPublish ==
    /\ f_pc = "publish"
    /\ wf_pc = "off"
    /\ wf_pc' = "start"
    /\ f_steps' = Append(f_steps, "publish")
    /\ UNCHANGED <<f_pc, f_message, f_commit, f_package, gitVars, outsideFlow>>
    /\ UNCHANGED <<remotes, tag_outcome, wf_i, pushlog, push_ok, results, wf_called>>

\* one project with at most one remote and one platform to publish to
InitFlow ==
    /\ UrlOff
    /\ GuiOff
    /\ SyncOff
    /\ dirty \in BOOLEAN
    /\ tracking = {}
    /\ g_op = "none"
    /\ g_pc = "idle"
    /\ g_i = 0
    /\ g_log = <<>>
    /\ g_count = 0
    /\ g_reports = <<>>
    /\ g_result = NoResult
    /\ g_ret = FALSE
    /\ g_status = InitialStatus
    /\ g_dirty0 = FALSE
    /\ g_runs = 0
    /\ is_git_repo \in BOOLEAN
    /\ repo_remotes \in {<<>>, <<[name |-> "origin", platform |-> "github"]>>}
    /\ tag_exists \in BOOLEAN
    /\ ~is_git_repo => (repo_remotes = <<>> /\ tag_exists = FALSE /\ ~dirty)
    /\ publish_to \in {<<>>, <<"github">>, <<"gitea">>}
    /\ tokens \in SUBSET Elems(publish_to)
    /\ repos \in SUBSET Elems(publish_to)
    /\ gitea_url \in BOOLEAN
    /\ "gitea" \notin Elems(publish_to) => gitea_url = FALSE
    /\ srv_releases = [p \in Platforms |-> {}]
    /\ srv_assets = [p \in Platforms |-> 0]
    /\ pub_platform = "github"
    /\ InitPublisher
    /\ wf_pc = "off"
    /\ remotes = <<>>
    /\ tag_outcome = "none"
    /\ wf_i = 0
    /\ pushlog = <<>>
    /\ push_ok = FALSE
    /\ results = <<>>
    /\ wf_called = <<>>
    /\ branch_fail = 0
    /\ overall = [returned |-> FALSE, success |-> FALSE]
    /\ f_pc = "start"
    /\ f_message \in BOOLEAN
    /\ f_commit = "None"
    /\ f_package = "None"
    /\ f_steps = <<>>
    /\ RefreshOff
    /\ ItemOff
    /\ LabelOff
    /\ CfgOff
    /\ status_stale = FALSE

NextFlow ==
    \/ FlowCommit
    \/ FlowPackage
    \/ FlowPublish
    \/ NextWf

SpecFlow == InitFlow /\ [][NextFlow]_vars

-----------------------------------------------------------------------------
(* ConfigManager: the instances of one process and the class attribute *)

Paths == {"p", "q"}
Types == {"npm"}
Projects == { [path |-> p, type |-> t] : p \in Paths, t \in Types }
TokenValues == {"", "t"}

\* the "updates" of update_project: any dict, with or without the key "path"
Updates == { [type |-> t] : t \in Types } \cup Projects

\* what a config file may hold before the program runs
Files ==
    { NoFile,
      [exists |-> TRUE, has_projects |-> FALSE, projects |-> <<>>,
       has_tokens |-> TRUE, tokens |-> [p \in {"github"} |-> "t"]] }
    \cup { [exists |-> TRUE, has_projects |-> TRUE, projects |-> <<pr>>,
            has_tokens |-> FALSE, tokens |-> <<>>] : pr \in Projects }

\* dict.update(other)
dict_update(d, other) ==
    [k \in (DOMAIN d) \cup (DOMAIN other) |->
        IF k \in DOMAIN other THEN other[k] ELSE d[k]]

FreeIds(h) == { id \in DOMAIN h : h[id] = NoDict }

\* new dicts for the values, in order: json.load builds them, a caller of
\* add_project passes one
RECURSIVE Allocate(_, _, _)
Allocate(h, values, list) ==
    IF values = <<>>
    THEN [heap |-> h, list |-> list]
    ELSE LET id == CHOOSE x \in FreeIds(h) : \A y \in FreeIds(h) : x <= y
         IN  Allocate([h EXCEPT ![id] = Head(values)], Tail(values),
                      Append(list, id))

\* self.config["projects"] of an instance: DEFAULT_CONFIG.copy() is shallow,
\* so until it is rebound it is the list of the class
projects_list(c, shared) == IF c.own THEN c.projects ELSE shared

Values(h, list) == [k \in 1..Len(list) |-> h[list[k]]]

\* get_projects() and the tokens, as seen through an instance
Observed(i) ==
    [projects |-> Values(project_dicts, projects_list(cfg[i], default_projects)),
     tokens |-> default_tokens]

\* _merge_config(loaded): a dict value is merged into the dict the config
\* holds, any other value replaces the entry
merge_config(i, loaded) ==
    LET n == Allocate(project_dicts, loaded.projects, <<>>)
    IN  /\ default_tokens' = IF loaded.has_tokens
                             THEN dict_update(default_tokens, loaded.tokens)
                             ELSE default_tokens
        /\ IF loaded.has_projects
           THEN /\ project_dicts' = n.heap
                /\ cfg' = [cfg EXCEPT ![i] =
                             [made |-> TRUE, own |-> TRUE, projects |-> n.list]]
           ELSE /\ project_dicts' = project_dicts
                /\ cfg' = [cfg EXCEPT ![i].made = TRUE]

\* save(): json.dump(self.config, f) of the config as the step leaves it;
\* an IOError leaves the file as it was
save(i) ==
    \E written \in BOOLEAN :
        cfg_file' = IF written
                    THEN [cfg_file EXCEPT ![i] =
                            [exists |-> TRUE, has_projects |-> TRUE,
                             projects |-> Values(project_dicts',
                                            projects_list(cfg'[i], default_projects')),
                             has_tokens |-> TRUE, tokens |-> default_tokens']]
                    ELSE cfg_file

Called(i, ret) ==
    /\ cfg_actor' = i
    /\ cfg_ret' = ret

outsideCfg == <<srvVars, pubVars, projectVars, wfVars, guiVars, fullVars, gitVars,
                syncVars, confirmVars, urlVars, refreshVars, itemVars, labelVars,
                flowVars, staleVars>>

\* ConfigManager(config_path): self.config = self.DEFAULT_CONFIG.copy(); load()
Construct(i) ==
    /\ ~cfg[i].made
    /\ Cardinality(FreeIds(project_dicts)) >= Len(cfg_file[i].projects)
    /\ merge_config(i, cfg_file[i])
    /\ Called(i, cfg_file[i].exists)
    /\ UNCHANGED <<default_projects, cfg_file, outsideCfg>>

\* load() on an instance in use
load(i) ==
    /\ cfg[i].made
    /\ cfg_file[i].exists
    /\ Cardinality(FreeIds(project_dicts)) >= Len(cfg_file[i].projects)
    /\ merge_config(i, cfg_file[i])
    /\ Called(i, TRUE)
    /\ UNCHANGED <<default_projects, cfg_file, outsideCfg>>

set_token(i, platform, token) ==
    /\ cfg[i].made
    /\ default_tokens' = [default_tokens EXCEPT ![platform] = token]
    /\ UNCHANGED <<project_dicts, default_projects, cfg>>
    /\ save(i)
    /\ Called(i, TRUE)
    /\ UNCHANGED outsideCfg

HasPath(h, list, path) == \E k \in 1..Len(list) : h[list[k]].path = path

add_project(i, project) ==
    /\ cfg[i].made
    /\ FreeIds(project_dicts) # {}
    /\ LET projects == projects_list(cfg[i], default_projects)
           n == Allocate(project_dicts, <<project>>, projects)
       IN  IF HasPath(project_dicts, projects, project.path)
           THEN /\ Called(i, FALSE)
                /\ UNCHANGED <<project_dicts, default_projects, default_tokens, cfg,
                               cfg_file>>
           ELSE /\ project_dicts' = n.heap
                /\ IF cfg[i].own
                   THEN /\ cfg' = [cfg EXCEPT ![i].projects = n.list]
                        /\ default_projects' = default_projects
                   ELSE /\ default_projects' = n.list
                        /\ cfg' = cfg
                /\ default_tokens' = default_tokens
                /\ save(i)
                /\ Called(i, TRUE)
    /\ UNCHANGED outsideCfg

\* the first project with that path: projects[i].update(updates)
update_project(i, path, updates) ==
    /\ cfg[i].made
    /\ LET projects == projects_list(cfg[i], default_projects)
       IN  IF HasPath(project_dicts, projects, path)
           THEN LET k == CHOOSE x \in 1..Len(projects) :
                           /\ project_dicts[projects[x]].path = path
                           /\ \A y \in 1..(x - 1) :
                                  project_dicts[projects[y]].path # path
                    id == projects[k]
                IN  /\ project_dicts' =
                         [project_dicts EXCEPT
                            ![id] = dict_update(project_dicts[id], updates)]
                    /\ UNCHANGED <<default_projects, default_tokens, cfg>>
                    /\ save(i)
                    /\ Called(i, TRUE)
           ELSE /\ Called(i, FALSE)
                /\ UNCHANGED <<project_dicts, default_projects, default_tokens, cfg,
                               cfg_file>>
    /\ UNCHANGED outsideCfg

RECURSIVE Without(_, _, _)
\* [p for p in projects if p.get("path") != path]
Without(h, list, path) ==
    IF list = <<>> THEN <<>>
    ELSE IF h[Head(list)].path = path THEN Without(h, Tail(list), path)
    ELSE <<Head(list)>> \o Without(h, Tail(list), path)

remove_project(i, path) ==
    /\ cfg[i].made
    /\ cfg' = [cfg EXCEPT ![i] =
                 [made |-> TRUE, own |-> TRUE,
                  projects |-> Without(project_dicts,
                                       projects_list(cfg[i], default_projects), path)]]
    /\ UNCHANGED <<project_dicts, default_projects, default_tokens>>
    /\ save(i)
    /\ Called(i, TRUE)
    /\ UNCHANGED outsideCfg

InitCfg ==
    /\ Quiet
    /\ is_git_repo = TRUE
    /\ RefreshOff
    /\ ItemOff
    /\ LabelOff
    /\ FlowOff
    /\ status_stale = FALSE
    /\ project_dicts = [id \in 1..MaxDicts |-> NoDict]
    /\ default_projects = <<>>
    /\ default_tokens = DefaultTokens
    /\ cfg = [i \in Instances |-> [made |-> FALSE, own |-> FALSE, projects |-> <<>>]]
    /\ cfg_file \in [Instances -> Files]
    /\ cfg_actor = "none"
    /\ cfg_ret = FALSE

NextCfg ==
    \E i \in Instances :
        \/ Construct(i)
        \/ load(i)
        \/ \E platform \in DOMAIN DefaultTokens, token \in TokenValues :
              set_token(i, platform, token)
        \/ \E project \in Projects : add_project(i, project)
        \/ \E path \in Paths, updates \in Updates : update_project(i, path, updates)
        \/ \E path \in Paths : remove_project(i, path)

SpecCfg == InitCfg /\ [][NextCfg]_vars

-----------------------------------------------------------------------------
(* Properties of the publishers (SpecPub) *)

Returned == pub_pc = "done"

Issued(name) == \E i \in 1..Len(reqs) : reqs[i].name = name

\* C4: once a call has created the release, every later publish call with the
\* same repo and tag returns success=false with a message containing
\* "already exists" and issues neither a creation nor an upload request.
C4_IdempotentPublish ==
    (Returned /\ createdBefore) =>
        /\ result.success = FALSE
        /\ Contains(result.message, <<"already", "exists">>)
        /\ ~Issued("create")
        /\ ~Issued("upload")

RequestOrder == <<"lookup", "create", "upload">>

\* C5: within one publish call the requests are issued in the order lookup,
\* create, upload, each at most once; create only after a lookup that returned
\* no release, upload only after a create that returned a release; a call whose
\* creation failed returns success=false and has issued no upload.
C5_RequestOrder ==
    /\ Len(reqs) <= 3
    /\ \A i \in 1..Len(reqs) : reqs[i].name = RequestOrder[i]
    /\ Len(reqs) >= 2 => ~reqs[1].got
    /\ Len(reqs) >= 3 => reqs[2].got
    /\ (Returned /\ Len(reqs) >= 2 /\ ~reqs[2].got) =>
            (result.success = FALSE /\ Len(reqs) = 2)

\* C5 witness: a call that went through lookup, create and upload has returned.
C5_Witness ==
    /\ Returned
    /\ Len(reqs) = 3
    /\ reqs[3].name = "upload"

ReleaseCreated == Len(reqs) >= 2 /\ reqs[2].got
UploadSucceeded == Len(reqs) = 3 /\ reqs[3].got

\* C6: publish returns success=true only if the asset upload succeeded or no
\* asset path was supplied; when the release was created and the upload failed
\* the result has success=false, the created-but-upload-failed message and the
\* release URL.
C6_FinalSuccess ==
    Returned =>
        /\ result.success => (UploadSucceeded \/ ~asset_path)
        /\ (ReleaseCreated /\ asset_path /\ ~UploadSucceeded) =>
              /\ result.success = FALSE
              /\ result.message = MsgUploadFailed
              /\ result.url # NoUrl

\* C7: if the request of any step (lookup, creation, upload) fails with a
\* network-level error, publish raises nothing and returns success=false with
\* a message.
C7_NetworkErrorsReported ==
    /\ pub_pc # "raised"
    /\ (Returned /\ \E i \in 1..Len(reqs) : reqs[i].o = "neterr") =>
            (result.success = FALSE /\ result.message # NoMessage)

\* C8: when the lookup finds an existing release for the tag, the result has
\* success=false, a message containing "already exists" and the URL of the
\* existing release.
C8_ExistingReleaseResult ==
    (Returned /\ Len(reqs) >= 1 /\ reqs[1].got) =>
        /\ result.success = FALSE
        /\ Contains(result.message, <<"already", "exists">>)
        /\ result.url = HtmlUrl(pub_platform, Tag)

-----------------------------------------------------------------------------
(* Properties of the publish workflow (SpecWf) *)

\* the run is over: finished was emitted, or run() was left by an exception
WfEnded == wf_pc \in {"finished", "crashed"}

Requested == Elems(publish_to)

\* number of publish() invocations for platform p
Invocations(p) == Cardinality({ i \in 1..Len(wf_called) : wf_called[i].platform = p })

\* C2: no release lookup, release creation or asset upload is issued while the
\* tag v<version> does not exist in the local repository, whatever the
\* tag-creation command did and whether or not the path is a git repository.
C2_TagBeforePublish ==
    (wf_pc = "publishing" /\ reqs # <<>>) => tag_exists

\* C2 as amended: on a git repository no release lookup, release creation or
\* asset upload is issued before the tag-creation command has run, and the tag
\* exists locally for every such request when that command exited with 0.
C2_TagAttemptBeforePublish ==
    (wf_pc = "publishing" /\ reqs # <<>> /\ is_git_repo) =>
        /\ tag_outcome # "none"
        /\ tag_outcome = "ok" => tag_exists

\* C2 witness: a publisher request was issued on a git repository whose tag
\* was created by the run.
C2_Witness ==
    /\ wf_pc = "publishing"
    /\ reqs # <<>>
    /\ is_git_repo
    /\ tag_outcome = "ok"
    /\ tag_exists

\* C3: for every requested platform for which a release is published, a push
\* to that platform's remote was attempted earlier in the same run.
C3_PushBeforePublish ==
    \A p \in Requested :
        (wf_pc # "off" /\ created[p]) =>
            \E i \in 1..Len(pushlog) : pushlog[i].platform = p

HasRemote(p) == \E i \in 1..Len(repo_remotes) : repo_remotes[i].platform = p

Pushed(name, kind) ==
    \E i \in 1..Len(pushlog) : pushlog[i].remote = name /\ pushlog[i].kind = kind

\* C3 as amended: on a git repository, the branch push and the tags push to
\* every registered remote have been attempted before the first publisher
\* call of the run; so a requested platform that has a registered remote is
\* never published without an earlier push attempt to that remote.
C3_PushesBeforePublish ==
    (wf_called # <<>> /\ is_git_repo) =>
        /\ \A i \in 1..Len(repo_remotes) :
              /\ Pushed(repo_remotes[i].name, "branch")
              /\ Pushed(repo_remotes[i].name, "tags")
        /\ \A p \in Requested :
              (created[p] /\ HasRemote(p)) =>
                  \E i \in 1..Len(pushlog) : pushlog[i].platform = p

\* C3 witness: a release was created on a platform that has a registered remote.
C3_Witness ==
    \E p \in Requested :
        /\ is_git_repo
        /\ HasRemote(p)
        /\ created[p]

\* C9: a requested platform without a token (or with a token but without a
\* repo identifier) gets a success=false entry with the missing-token
\* (missing-repo) message in the result map and no publisher request, and the
\* loop goes on with the remaining platforms.
C9_MissingConfigSkipped ==
    WfEnded =>
        \A p \in Requested :
            /\ p \notin tokens =>
                  /\ p \in DOMAIN results
                  /\ results[p] = SkipResult(MsgNoToken)
                  /\ Invocations(p) = 0
            /\ (p \in tokens /\ p \notin repos) =>
                  /\ p \in DOMAIN results
                  /\ results[p] = SkipResult(MsgNoRepo)
                  /\ Invocations(p) = 0

\* C10: for each requested platform with a token and a repo identifier, a
\* publisher of the matching variant is obtained and its publish is invoked
\* exactly once, the returned result being stored under the platform's key,
\* whatever the configuration gaps of the other requested platforms.
C10_ConfiguredPlatformsPublished ==
    WfEnded =>
        \A p \in Requested :
            (p \in tokens /\ p \in repos) =>
                /\ Invocations(p) = 1
                /\ \A i \in 1..Len(wf_called) :
                      wf_called[i].platform = p => wf_called[i].variant = p
                /\ p \in DOMAIN results
                /\ "platform" \in DOMAIN results[p]
                /\ results[p].platform = p

\* C11: when the workflow completes, the result map holds exactly one entry
\* for each requested platform, also for a platform short-circuited by a
\* configuration error (missing token, repo identifier or gitea base URL), and
\* an entry once written is never overwritten or updated.
C11_OneEntryPerPlatform ==
    /\ [](wf_pc = "finished" => DOMAIN results = Requested)
    /\ [][\A p \in DOMAIN results :
              p \in DOMAIN results' /\ results'[p] = results[p]]_vars

AllSucceeded == \A p \in DOMAIN results : results[p].success

\* C12: the overall success flag equals (number of results with success=true
\* = number of results), for every publish_to list including the empty one.
C12_OverallSuccess ==
    overall.returned => (overall.success <=> AllSucceeded)

\* C12 as amended: the overall success flag is true iff there is at least one
\* per-platform result and every per-platform result has success=true; with
\* no result at all (empty publish_to) the flag is false.
C12_OverallSuccessNonEmpty ==
    overall.returned =>
        (overall.success <=> (AllSucceeded /\ DOMAIN results # {}))

\* C12 witness: the workflow returned success=true over a non-empty result map.
C12_Witness ==
    /\ overall.returned
    /\ overall.success
    /\ DOMAIN results # {}

\* the i-th push of the push phase: branch, then tags, remote by remote
ExpectedPush(i) ==
    [remote |-> repo_remotes[(i + 1) \div 2].name,
     platform |-> repo_remotes[(i + 1) \div 2].platform,
     kind |-> IF i % 2 = 1 THEN "branch" ELSE "tags"]

PushPhaseOver == wf_pc \in {"platform", "publishing", "finished", "crashed"}

\* C13: in the push phase exactly one branch push and one tags push are
\* attempted for every registered remote, in that order, whatever the branch
\* push and the pushes to earlier remotes returned.
C13_PushPhase ==
    /\ Len(pushlog) <= 2 * Len(repo_remotes)
    /\ \A i \in 1..Len(pushlog) : pushlog[i] = ExpectedPush(i)
    /\ (is_git_repo /\ PushPhaseOver) => Len(pushlog) = 2 * Len(repo_remotes)

\* C13 witness: the push phase is over for two remotes and the branch push to
\* the first of them had failed.
C13_Witness ==
    /\ PushPhaseOver
    /\ Len(repo_remotes) = 2
    /\ branch_fail = 1
    /\ Len(pushlog) = 4

\* C14: when the tag creation fails because the tag already exists, the
\* workflow still performs the push phase and the per-platform publish phase;
\* it never stops at the tag step.
C14_ExistingTagNotFatal ==
    (tag_outcome = "fail" /\ tag_exists) =>
        /\ wf_pc \in {"push", "push_tags"} \/ PushPhaseOver
        /\ PushPhaseOver => Len(pushlog) = 2 * Len(repo_remotes)
        /\ wf_pc = "finished" => wf_i > Len(publish_to)
        /\ wf_pc = "crashed" => wf_i <= Len(publish_to)

\* C14 witness: the tag existed, its creation failed, and the run went through
\* the pushes and published a release.
C14_Witness ==
    /\ tag_outcome = "fail"
    /\ tag_exists
    /\ wf_pc = "finished"
    /\ pushlog # <<>>
    /\ wf_called # <<>>

-----------------------------------------------------------------------------
(* Properties of the sync operations (SpecGit) *)

Done(op) == g_op = op /\ g_pc = "done"

Ran(cmd) == \E i \in 1..Len(g_log) : g_log[i].cmd = cmd

\* C15: push_all attempts a push of the branch to every registered remote, in
\* registry order, whatever the earlier pushes did; its overall success is
\* true iff every push command succeeded; a failed push is reported as failed
\* for its remote.
C15_PushAll ==
    Done("push_all") =>
        /\ Len(g_log) = Len(repo_remotes)
        /\ \A i \in 1..Len(g_log) :
              /\ g_log[i].cmd = "push"
              /\ g_log[i].remote = repo_remotes[i].name
              /\ g_log[i].o # "ok" =>
                    /\ g_log[i].remote \in DOMAIN g_reports
                    /\ g_reports[g_log[i].remote] = FALSE
        /\ g_result.success <=> (\A i \in 1..Len(g_log) : g_log[i].o = "ok")

\* C16: stage_commit_push_all on a repository without local changes returns
\* success=false with the nothing-to-commit message and runs no add, no commit
\* and no push; the working tree and the refs stay as they were.
C16_NothingToCommit ==
    (Done("commit_and_push_all") /\ ~g_dirty0) =>
        /\ g_result = [success |-> FALSE, message |-> MsgNothingToCommit]
        /\ ~Ran("add") /\ ~Ran("commit") /\ ~Ran("push")
        /\ dirty = g_dirty0

\* C16 witness: the operation has ended on a repository that was clean.
C16_Witness ==
    /\ Done("commit_and_push_all")
    /\ ~g_dirty0
    /\ g_result.message = MsgNothingToCommit

\* C17: in stage_commit_push_all a push is issued only after the commit
\* command succeeded; when staging or the commit command fails, for whatever
\* reason the command runner reports as a failure, the operation ends with
\* success=false reported as a stage or commit failure and no push is made.
C17_PushOnlyAfterCommit ==
    g_op = "commit_and_push_all" =>
        /\ \A j \in 1..Len(g_log) :
              g_log[j].cmd = "push" =>
                  \E i \in 1..(j - 1) : g_log[i].cmd = "commit" /\ g_log[i].o = "ok"
        /\ (g_pc = "done" /\ \E i \in 1..Len(g_log) :
                /\ g_log[i].cmd \in {"add", "commit"}
                /\ run_git(g_log[i].o, FALSE).returncode # 0) =>
              /\ g_result.success = FALSE
              /\ g_result.message \in {MsgStageFailed, MsgCommitFailed}
              /\ ~Ran("push")

\* C18: when a git command runs into the timeout the runner raises nothing and
\* returns exit code 1 with a stderr that describes the timeout, and every
\* mutating wrapper returns its failure value for the timed-out command.
C18_TimeoutIsFailure ==
    /\ \A check \in BOOLEAN :
          /\ ~run_git("timeout", check).raised
          /\ run_git("timeout", check).returncode = 1
          /\ Contains(run_git("timeout", check).stderr, <<"timed", "out">>)
    /\ (Done("wrapper") /\ g_log[1].o = "timeout") => g_ret = FALSE

CountFailed ==
    /\ g_log # <<>>
    /\ g_log[Len(g_log)].cmd = "rev-list"
    /\ run_git(g_log[Len(g_log)].o, FALSE).returncode # 0

\* C19: every status returned by status_for has ahead >= 0 and behind >= 0;
\* when the remote-tracking ref does not exist (the count command exits
\* non-zero) the status has ahead = 0, behind = 0 and a non-null error.
C19_StatusCounts ==
    Done("status") =>
        /\ g_status.ahead >= 0
        /\ g_status.behind >= 0
        /\ CountFailed =>
              /\ g_status.ahead = 0
              /\ g_status.behind = 0
              /\ g_status.error # "None"

\* C19 witness: a status was returned for a remote whose tracking ref is
\* missing.
C19_Witness ==
    /\ Done("status")
    /\ CountFailed
    /\ repo_remotes[g_i].name \notin tracking

\* C21: in every status returned by get_remote_status, can_push = true
\* implies behind = 0.
C21_CanPushOnlyIfNotBehind ==
    Done("status") => (g_status.can_push => g_status.behind = 0)

\* C21 witness: a status was returned for a remote that is behind.
C21_Witness ==
    /\ Done("status")
    /\ g_status.behind > 0
    /\ ~g_status.can_push

FetchFailed ==
    \E i \in 1..Len(g_log) : g_log[i].cmd = "fetch" /\ g_log[i].o # "ok"

\* C20: whenever the fetch of a remote failed during a status check, the
\* status of that remote has ahead = 0, behind = 0 and a non-null error, also
\* when a tracking ref from an earlier fetch still exists locally.
C20_FetchFailureReported ==
    (Done("status") /\ FetchFailed) =>
        /\ g_status.ahead = 0
        /\ g_status.behind = 0
        /\ g_status.error # "None"

\* the commands of the status check that were run for remote number i
CmdsFor(i) ==
    SelectSeq(g_log, LAMBDA c : c.remote = repo_remotes[i].name)

\* the fetch or the count of remote number i failed
StatusFailed(i) == \E k \in 1..Len(CmdsFor(i)) : CmdsFor(i)[k].o # "ok"

\* C22: a status check over all remotes yields exactly one entry per
\* registered remote, in registry order, whatever the fetch and count outcomes
\* were; the entry of a remote is errored iff its fetch or its count failed.
C22_OneStatusPerRemote ==
    Done("status_all") =>
        /\ Len(g_found) = Len(repo_remotes)
        /\ \A i \in 1..Len(g_found) :
            /\ g_found[i].name = repo_remotes[i].name
            /\ StatusFailed(i) <=> g_found[i].error # "None"

\* the conflict marker occurs in what the command printed
HasMarker == In("CONFLICT", g_out.stdout) \/ In("CONFLICT", g_out.stderr)

\* C23: pull_rebase returns success = true exactly when the command exits
\* with code 0; on failure the message is the conflict message iff the
\* conflict marker occurs in stdout or stderr, and the caller shows the
\* conflict hint iff the output of the failed command contained the marker.
C23_PullRebase ==
    Done("pull_rebase") =>
        /\ g_result.success <=> g_out.returncode = 0
        /\ ~g_result.success => (g_result.message = MsgConflicts <=> HasMarker)
        /\ g_hint <=> (~g_result.success /\ HasMarker)

\* text is msg with whitespace before it and after it
Surrounds(text, msg) ==
    \E i, j \in 0..Len(text) :
        /\ i + Len(msg) + j = Len(text)
        /\ SubSeq(text, i + 1, i + Len(msg)) = msg
        /\ \A k \in (1..i) \cup ((Len(text) - j + 1)..Len(text)) :
            text[k] \in Whitespace

\* text has something other than whitespace in it
Printed(text) == \E k \in 1..Len(text) : text[k] \notin Whitespace

\* C24 as stated: force_push returns success = true exactly when the command
\* exits with code 0, and a rejected push returns success = false with the
\* error output of the command, unchanged, as the message.
C24_ForcePushVerbatim ==
    Done("force_push") =>
        /\ g_result.success <=> g_out.returncode = 0
        /\ (~g_result.success /\ Printed(g_out.stderr)) =>
            g_result.message = g_out.stderr

\* C24: force_push returns success = true exactly when the command exits with
\* code 0, and a rejected push returns success = false with the error output
\* of the command without the whitespace around it as the message.
C24_ForcePushStripped ==
    Done("force_push") =>
        /\ g_result.success <=> g_out.returncode = 0
        /\ (~g_result.success /\ Printed(g_out.stderr)) =>
            /\ Surrounds(g_out.stderr, g_result.message)
            /\ g_result.message[1] \notin Whitespace
            /\ g_result.message[Len(g_result.message)] \notin Whitespace

\* C24 witness: a rejected force push whose error output ends with a newline
C24_Witness ==
    /\ Done("force_push")
    /\ g_out.returncode # 0
    /\ Printed(g_out.stderr)
    /\ g_out.stderr[Len(g_out.stderr)] \in Whitespace
    /\ ~g_result.success
    /\ g_result.message # g_out.stderr

\* C28: within one status check over all remotes, the commands run are, for
\* each remote in turn, one fetch and then one count: neither is run twice for
\* a remote, also not after a failure.
C28_FetchThenCountOnce ==
    g_op = "status_all" =>
        /\ Len(g_log) <= 2 * Len(repo_remotes)
        /\ \A k \in 1..Len(g_log) :
            /\ g_log[k].remote = repo_remotes[(k + 1) \div 2].name
            /\ g_log[k].cmd = IF k % 2 = 1 THEN "fetch" ELSE "rev-list"
        /\ Len(g_found) = Len(g_log) \div 2 \/ Len(g_found) + 1 = Len(g_log) \div 2
        /\ g_pc = "done" => Len(g_log) = 2 * Len(repo_remotes)

\* C28 witness: a check of two remotes has ended and the fetch of the first
\* remote had failed
C28_Witness ==
    /\ Done("status_all")
    /\ Len(repo_remotes) = 2
    /\ g_log[1].o # "ok"
    /\ Len(g_found) = 2

\* C29: the abort runs rebase-abort first and merge-abort only if
\* rebase-abort failed; it reports "rebase aborted" when rebase-abort
\* succeeded, "merge aborted" when merge-abort succeeded and "nothing in
\* progress" when both failed.
C29_AbortOrder ==
    Done("abort") =>
        /\ g_log[1].cmd = "abort_rebase"
        /\ Len(g_log) = 2 => (g_log[2].cmd = "abort_merge" /\ g_log[1].o # "ok")
        /\ g_log[1].o = "ok" => Len(g_log) = 1
        /\ g_report \in {"rebase aborted", "merge aborted", "nothing in progress"}
        /\ g_report = "rebase aborted" <=> g_log[1].o = "ok"
        /\ g_report = "merge aborted" <=> (Len(g_log) = 2 /\ g_log[2].o = "ok")

-----------------------------------------------------------------------------
(* Properties of the URLs and of the listing of the remotes (SpecUrl) *)

Applied(fn) == fn \in u_done

\* a piece in which the name of the site is written, in whatever case
Mentions(u, pieces) == \E i \in 1..Len(u) : u[i] \in pieces

\* C26: classify decides by case-insensitive substring match in the order
\* github.com, gitee.com, gitea pattern ('gitea' or 'git.'), and returns the
\* platform value unknown for a URL that matches none of them.
C26_Classify ==
    Applied("classify") =>
        u_platform =
            IF Mentions(remote_url, {"github.com", "GitHub.com"}) THEN "github"
            ELSE IF Mentions(remote_url, {"gitee.com"}) THEN "gitee"
            ELSE IF Mentions(remote_url, {"gitea.local", "git.example.com"})
            THEN "gitea"
            ELSE "unknown"

\* u ends with the pieces of e
EndsWith(u, e) ==
    Len(u) >= Len(e) /\ SubSeq(u, Len(u) - Len(e) + 1, Len(u)) = e

\* https://host/owner/repo(.git)? and git@host:owner/repo(.git)?, the first
\* of them with each of the given schemes
Shapes(schemes, owner, repo) ==
    { <<sch, h, "/", owner, "/", repo>> \o g :
        sch \in schemes, h \in Hosts, g \in {<<>>, <<".git">>} }
    \cup
    { <<"git@", h, ":", owner, "/", repo>> \o g :
        h \in Hosts, g \in {<<>>, <<".git">>} }

\* C27 as stated: extract_repo_id returns owner/repo, without a trailing
\* .git, for every URL https://host/owner/repo(.git)? or
\* git@host:owner/repo(.git)?, and null for every other URL.
C27_ExtractRepoIdExactShape ==
    Applied("extract_repo_id") =>
        /\ \A o \in SegNames, r \in SegNames :
            remote_url \in Shapes({"https://"}, o, r) => u_repo = <<o, "/", r>>
        /\ (\A o \in SegNames, r \in SegNames :
                remote_url \notin Shapes({"https://"}, o, r)) => u_repo = <<>>

\* C27: extract_repo_id returns owner/repo, without a trailing .git, for
\* every URL that ends with http://host/owner/repo(.git)?,
\* https://host/owner/repo(.git)? or git@host:owner/repo(.git)?, and null for
\* every other URL.
C27_ExtractRepoId ==
    Applied("extract_repo_id") =>
        /\ \A o \in SegNames, r \in SegNames :
            (\E e \in Shapes(HttpSchemes, o, r) : EndsWith(remote_url, e))
                => u_repo = <<o, "/", r>>
        /\ (\A o \in SegNames, r \in SegNames :
                \A e \in Shapes(HttpSchemes, o, r) : ~EndsWith(remote_url, e))
                => u_repo = <<>>

\* C27 witness: the name of the repository was taken from a http URL that
\* ends with .git
C27_Witness ==
    /\ Applied("extract_repo_id")
    /\ remote_url = <<"http://", "example.com", "/", "owner", "/", "repo", ".git">>
    /\ u_repo = <<"owner", "/", "repo">>

\* the lines of the listing that name a remote and its URL
Named == { i \in 1..Len(listing) : Len(listing[i]) >= 2 }

\* the first line that mentions the name
FirstLine(name) ==
    CHOOSE i \in Named :
        /\ listing[i][1] = name
        /\ \A j \in Named : listing[j][1] = name => i <= j

\* C30: list_remotes returns each remote name at most once, in order of first
\* appearance in the listing, with the URL of the first line that mentions
\* the name.
C30_FirstUrlWins ==
    Applied("list_remotes") =>
        /\ { u_remotes[i].name : i \in 1..Len(u_remotes) }
               = { listing[i][1] : i \in Named }
        /\ \A i, j \in 1..Len(u_remotes) :
            i < j => FirstLine(u_remotes[i].name) < FirstLine(u_remotes[j].name)
        /\ \A i \in 1..Len(u_remotes) :
            u_remotes[i].url = listing[FirstLine(u_remotes[i].name)][2]

\* C30 witness: two remotes were listed from lines of which a later one gives
\* another URL for the first remote
C30_Witness ==
    /\ Applied("list_remotes")
    /\ Len(u_remotes) = 2
    /\ \E i \in Named :
        /\ listing[i][1] = u_remotes[1].name
        /\ listing[i][2] # u_remotes[1].url

-----------------------------------------------------------------------------
(* Properties of the dialog (SpecGui) *)

\* C25 as stated: a force-push worker is started only after the user answered
\* Yes to the warning and, where the name is asked for, typed exactly the name
\* of the selected remote.
C25_ConfirmedExactly ==
    fp_confirm.started =>
        /\ fp_confirm.yes
        /\ ui = "dialogs" =>
            /\ fp_confirm.asked
            /\ fp_confirm.ok
            /\ fp_confirm.text = SelectedRemote

\* C25: a force-push worker is started only after the user answered Yes to
\* the warning and, where the name is asked for, accepted the second dialog
\* with the name of the selected remote, whitespace around it ignored.
C25_Confirmed ==
    fp_confirm.started =>
        /\ fp_confirm.yes
        /\ ui = "dialogs" =>
            /\ fp_confirm.asked
            /\ fp_confirm.ok
            /\ Surrounds(fp_confirm.text, SelectedRemote)

\* C25 witness: the force-push worker runs after the user typed the name with
\* blanks around it
C25_Witness ==
    /\ ui = "dialogs"
    /\ operation = "force_push"
    /\ w["operation"] = "running"
    /\ fp_confirm.started
    /\ fp_confirm.text = <<" ", "origin", " ">>

\* C1: at most one worker that runs a mutating operation is in flight at any
\* time, and a request that arrives while one is in flight starts no worker
\* and is answered with the busy message.
C1_OneMutatingWorker ==
    /\ Cardinality(InFlight) <= 1
    /\ (flight_at_request /\ last_reply # "invalid") => last_reply = "busy"

-----------------------------------------------------------------------------
(* Properties of the refresh (SpecRefresh) *)

Gray(d, p) == d[p].color = "gray"

\* the remote whose content was asked for by the step just taken, 0 if none
Queried == IF rf_log' # rf_log THEN rf_log'[Len(rf_log')].i ELSE 0

\* C31: platform_status holds one entry per platform; an entry with a parsed
\* version is never replaced, an entry of a failure is replaced only by an
\* entry with a parsed version, and no git command names a remote whose
\* platform already has an entry with a parsed version.
C31_OneEntryPerPlatform ==
    [][/\ \A p \in DOMAIN platform_status :
            /\ p \in DOMAIN platform_status'
            /\ ~Gray(platform_status, p) => platform_status'[p] = platform_status[p]
            /\ Gray(platform_status, p) =>
                   \/ platform_status'[p] = platform_status[p]
                   \/ ~Gray(platform_status', p)
       /\ Queried # 0 => ~HasSuccess(platform_status, rf_remotes[Queried])
       /\ rf_pc = "platforms" /\ rf_i <= Len(rf_remotes)
          /\ HasSuccess(platform_status, rf_remotes[rf_i])
          => rf_i' = rf_i + 1 /\ UNCHANGED <<platform_status, rf_log>>]_vars

\* three remotes of one platform: the first fails, the second replaces the
\* failure by its version and the third is skipped
C31_Witness ==
    /\ rf_pc = "finished"
    /\ Len(rf_remotes) = 3
    /\ \A i \in 1..3 : rf_remotes[i] = "github"
    /\ Len(rf_stores) = 2
    /\ rf_stores[1].color = "gray"
    /\ rf_stores[2].over = "gray" /\ rf_stores[2].color # "gray"
    /\ \A k \in 1..Len(rf_log) : rf_log[k].cmd = "show" => rf_log[k].i # 3

-----------------------------------------------------------------------------
(* Properties of the label of a platform (SpecLabel) *)

\* major decides first, then minor, then patch
Lexicographic(a, b) ==
    IF a[1] # b[1] THEN (IF a[1] > b[1] THEN "local_newer" ELSE "remote_newer")
    ELSE IF a[2] # b[2] THEN (IF a[2] > b[2] THEN "local_newer" ELSE "remote_newer")
    ELSE IF a[3] # b[3] THEN (IF a[3] > b[3] THEN "local_newer" ELSE "remote_newer")
    ELSE "synced"

\* C32: with both versions parsed, the platform is labelled local-newer,
\* remote-newer or synced as the lexicographic order of the two triples
\* says, and synced only for equal triples.
C32_LexicographicLabel ==
    lb_out # NoEntry /\ lb_local # <<>> =>
        /\ lb_out.status = Lexicographic(lb_local, lb_remote)
        /\ lb_out.status = "synced" <=> lb_local = lb_remote
        /\ lb_out.version = lb_remote

\* the major number decides although minor and patch point the other way
C32_Witness ==
    /\ lb_local = <<1, 0, 0>>
    /\ lb_remote = <<0, 1, 1>>
    /\ lb_out.status = "local_newer"

-----------------------------------------------------------------------------
(* Properties of the worker threads (SpecGui) *)

\* C33: the run of a worker ends only after it has emitted finished, once:
\* a thread that runs is next seen having queued exactly one finished
\* signal, never ended without it.
C33_FinishedBeforeEnd ==
    [][\A k \in Workers :
          w[k] = "running" /\ w'[k] # "running" =>
              w'[k] = "emitted" /\ sig'[k] = sig[k] + 1]_vars

-----------------------------------------------------------------------------
(* Properties of the status shown by the sync dialog (SpecSyncDialog) *)

\* C34: after a sync operation has completed, a status check is eventually
\* started, also when one was running when the operation finished.
C34_StatusRecomputed == status_stale ~> ~status_stale

-----------------------------------------------------------------------------
(* Properties of the item status (SpecItem) *)

\* modified before ahead before behind before synced
Priority(in) ==
    CASE in.has_changes -> "modified"
      [] ~in.has_changes /\ in.ahead > 0 -> "ahead"
      [] ~in.has_changes /\ in.ahead = 0 /\ in.behind > 0 -> "behind"
      [] OTHER -> "synced"

\* C35: for a git repository every implementation reports the status of the
\* one priority modified, ahead, behind, synced, so the three agree.
C35_SameItemStatus ==
    it_in.repo = "repo" =>
        /\ \A m \in ItemImplementations :
               it_out[m] # "none" => it_out[m] = Priority(it_in)
        /\ \A m, n \in ItemImplementations :
               it_out[m] # "none" /\ it_out[n] # "none" => it_out[m] = it_out[n]

\* a diverged repository without local changes, reported ahead by all three
C35_Witness ==
    /\ it_in.repo = "repo"
    /\ ~it_in.has_changes /\ it_in.ahead > 0 /\ it_in.behind > 0
    /\ \A m \in ItemImplementations : it_out[m] = "ahead"

-----------------------------------------------------------------------------
(* Properties of the full publish workflow (SpecFlow) *)

IsPrefix(a, b) == Len(a) <= Len(b) /\ \A i \in 1..Len(a) : a[i] = b[i]

StepOrder == IF f_message THEN <<"commit", "package", "publish">>
             ELSE <<"package", "publish">>

\* the publish step has done nothing: no tag, no push, no release
PublishUntouched ==
    /\ wf_pc = "off"
    /\ tag_outcome = "none"
    /\ pushlog = <<>>
    /\ wf_called = <<>>
    /\ results = <<>>

\* C36: the steps start in the order commit (with a commit message only),
\* package, publish; after a failed packaging the workflow has returned and
\* the publish step has done nothing; whatever the commit step returned, the
\* workflow goes on to packaging and, when that succeeds, to publishing.
C36_StepOrder ==
    /\ IsPrefix(f_steps, StepOrder)
    /\ ~PublishUntouched => f_package = "ok" /\ f_steps = StepOrder
    /\ f_package = "failed" => f_pc = "returned" /\ PublishUntouched
    /\ f_commit # "None" => f_pc \in {"package", "publish", "returned"}
    /\ f_pc = "returned" => f_package = "failed"
    /\ f_package = "ok" => f_pc = "publish"

\* the commit step failed and the workflow still packaged and published
C36_Witness ==
    /\ f_commit = "failed"
    /\ f_package = "ok"
    /\ f_steps = <<"commit", "package", "publish">>
    /\ overall.returned
    /\ wf_called # <<>>

-----------------------------------------------------------------------------
(* Properties of the configuration (SpecCfg) *)

\* C37: a call on one instance leaves what every other instance shows as it
\* was, and an instance made from a missing file shows the defaults.
C37_Isolated ==
    [][\A j \in Instances :
          /\ cfg[j].made /\ cfg_actor' # j => Observed(j)' = Observed(j)
          /\ ~cfg[j].made /\ cfg'[j].made /\ ~cfg_file[j].exists =>
                 Observed(j)' = [projects |-> <<>>, tokens |-> DefaultTokens]]_vars

UniquePaths(projects) ==
    \A k, l \in 1..Len(projects) : k # l => projects[k].path # projects[l].path

\* C38: the projects of an instance have pairwise different paths, and
\* add_project with a path already configured returns false and changes nothing.
C38_UniquePaths ==
    /\ [](\A i \in Instances : UniquePaths(Observed(i).projects))
    /\ [][\A i \in Instances, project \in Projects :
             /\ add_project(i, project)
             /\ HasPath(project_dicts, projects_list(cfg[i], default_projects),
                        project.path)
             => ~cfg_ret' /\ Observed(i)' = Observed(i)]_vars

=============================================================================
